---- MODULE Spec2Model ----
(***************************************************************************)
(* Model of the candle retriever: the per-symbol SQLite store, the         *)
(* backward fetcher (CandleRetriever), the gap interpolator (GapFiller),   *)
(* the progress ledger (TimeframeStatus), the backfill driver              *)
(* (run_backfill) and the realtime manager (RealtimeManager).              *)
(*                                                                         *)
(* One symbol S is modelled: its store file <db_dir>/S.db with the tables  *)
(* candlesticks and timeframe_status.  Times are epoch milliseconds, as    *)
(* in the program.  f64 prices are modelled as integers (fixed point).     *)
(***************************************************************************)
EXTENDS Integers, Sequences, FiniteSets, TLC

\* ------------------------------------------------------------------------
\* Bounds of the model
\* ------------------------------------------------------------------------

\* Page size of one exchange request (BATCH_SIZE = 1000 in the program,
\* scaled down so that a history spans several pages).
BATCH_SIZE == 2

\* Number of run_backfill invocations explored.
MaxRuns == 2

\* Capacity used for the manager's command mailbox (unbounded in the program).
MaxMailbox == 1

\* Capacity of the broadcast channel (broadcast::channel(1000) in the
\* program, scaled down so that a slow consumer lags).
BroadcastCapacity == 2

\* Number of updates sent on the broadcast channel that are explored.
MaxUpdates == 4

\* Number of commands of viewer sessions queued in the manager's mailbox
\* that are explored.
MaxCommands == 2

\* Length explored of a session's subscription list (a Vec that grows with
\* every subscribe message).
MaxSubscriptions == 2

\* Number of failed exchange calls of one retriever that are explored.
MaxApiErrors == 2

\* ------------------------------------------------------------------------
\* Timeframe arithmetic
\* ------------------------------------------------------------------------

\* The timeframes of the modelled symbol.
Timeframes == {"5m", "1h"}

\* Timeframes on which stand-alone fetch_and_store sessions are run.
SessionTimeframes == {"5m"}

\* Timeframes for which the exchange stream delivers ticks.
StreamTimeframes == {"5m"}

\* NULL of an INTEGER column / None of an Option<i64>.
NULL == -1

\* The 15 tags the interval tables enumerate, and tags they do not.
KnownTags ==
    { "1m", "3m", "5m", "15m", "30m", "1h", "2h", "4h", "6h", "8h", "12h",
      "1d", "3d", "1w", "1M" }

UnknownTags == { "7m", "10s", "x", "" }

\* utils::timeframe_to_interval, in seconds: every entry of the table is a
\* multiple of 1000 ms, and 2_592_000_000 ms exceeds the checker's integers.
UtilsIntervalSeconds(timeframe) ==
    CASE timeframe = "1m"  -> 60
      [] timeframe = "3m"  -> 180
      [] timeframe = "5m"  -> 300
      [] timeframe = "15m" -> 900
      [] timeframe = "30m" -> 1800
      [] timeframe = "1h"  -> 3600
      [] timeframe = "2h"  -> 7200
      [] timeframe = "4h"  -> 14400
      [] timeframe = "6h"  -> 21600
      [] timeframe = "8h"  -> 28800
      [] timeframe = "12h" -> 43200
      [] timeframe = "1d"  -> 86400
      [] timeframe = "3d"  -> 259200
      [] timeframe = "1w"  -> 604800
      [] timeframe = "1M"  -> 2592000
      [] OTHER             -> 300

\* The table of GapFiller::timeframe_to_interval, in seconds.
GapFillerIntervalSeconds(timeframe) ==
    CASE timeframe = "1m"  -> 60
      [] timeframe = "3m"  -> 180
      [] timeframe = "5m"  -> 300
      [] timeframe = "15m" -> 900
      [] timeframe = "30m" -> 1800
      [] timeframe = "1h"  -> 3600
      [] timeframe = "2h"  -> 7200
      [] timeframe = "4h"  -> 14400
      [] timeframe = "6h"  -> 21600
      [] timeframe = "8h"  -> 28800
      [] timeframe = "12h" -> 43200
      [] timeframe = "1d"  -> 86400
      [] timeframe = "3d"  -> 259200
      [] timeframe = "1w"  -> 604800
      [] timeframe = "1M"  -> 2592000
      [] OTHER             -> 300

\* GapFiller::timeframe_to_interval (identical to utils::timeframe_to_interval).
timeframe_to_interval(timeframe) ==
    GapFillerIntervalSeconds(timeframe) * 1000

\* The numeric prefix tf[..len-1] and the unit suffix tf[len-1..] of a tag.
TfNum(tf) ==
    CASE tf \in {"1m", "1h", "1d", "1w", "1M"} -> 1
      [] tf \in {"3m", "3d"}   -> 3
      [] tf = "5m"             -> 5
      [] tf = "7m"             -> 7
      [] tf = "10s"            -> 10
      [] tf = "15m"            -> 15
      [] tf = "30m"            -> 30
      [] tf = "2h"             -> 2
      [] tf = "4h"             -> 4
      [] tf = "6h"             -> 6
      [] tf = "8h"             -> 8
      [] tf = "12h"            -> 12
      [] OTHER                 -> 1

TfUnit(tf) ==
    CASE tf \in {"1m", "3m", "5m", "7m", "15m", "30m"}    -> "m"
      [] tf \in {"1h", "2h", "4h", "6h", "8h", "12h"}     -> "h"
      [] tf \in {"1d", "3d"}                              -> "d"
      [] tf = "1w"                                        -> "w"
      [] tf = "1M"                                        -> "M"
      [] tf = "10s"                                       -> "s"
      [] tf = "x"                                         -> "x"
      [] OTHER                                            -> "?"

\* RealtimeManager::timeframe_to_seconds.
timeframe_to_seconds(tf) ==
    CASE TfUnit(tf) = "m" -> TfNum(tf) * 60
      [] TfUnit(tf) = "h" -> TfNum(tf) * 3600
      [] TfUnit(tf) = "d" -> TfNum(tf) * 86400
      [] OTHER            -> 60

\* ------------------------------------------------------------------------
\* Sequences and sets
\* ------------------------------------------------------------------------

Max(S) == CHOOSE x \in S : \A y \in S : x >= y

\* The elements of a set of integers in ascending order (ORDER BY ... ASC).
SortedSeq(S) ==
    [ i \in 1..Cardinality(S) |->
        CHOOSE x \in S : Cardinality({ y \in S : y < x }) = i - 1 ]

\* The last n elements of a sequence.
LastN(s, n) ==
    IF Len(s) <= n THEN s ELSE SubSeq(s, Len(s) - n + 1, Len(s))

\* ------------------------------------------------------------------------
\* Exchange (REST klines)
\* ------------------------------------------------------------------------

\* Wall-clock time of the explored runs; every candle of the histories below
\* opened before it.
Now == 50000000

\* The candle histories the exchange may hold for a timeframe, as sets of
\* candle indices k (open_time = k * interval): a contiguous history, a
\* history with one missing candle and a history with a ten-candle outage.
HistoryChoices == { 1..4, {1, 2, 4}, {1, 12} }

\* A numeric field of KlineSummary is a String: Text(n) stands for the decimal
\* text of n, Unparseable for a text that str::parse::<f64> rejects.
Text(n) == [ parses |-> TRUE, value |-> n ]

Unparseable == [ parses |-> FALSE, value |-> 0 ]

\* field.parse::<f64>().unwrap_or(0.0)
parse_f64_or_zero(field) == IF field.parses THEN field.value ELSE 0

\* The kline the exchange serves for candle k of a timeframe; the fields
\* named in bad arrive with a text that is not a number.
Kline(tf, k, bad) ==
    LET interval == timeframe_to_interval(tf)
        Field(name, n) == IF name \in bad THEN Unparseable ELSE Text(n)
    IN
    [ open_time  |-> k * interval,
      close_time |-> k * interval + interval - 1,
      open       |-> Field("open", 100 + 2 * k),
      high       |-> Field("high", 103 + 2 * k),
      low        |-> Field("low", 99 + 2 * k),
      close      |-> Field("close", 101 + 2 * k),
      volume     |-> Field("volume", 10 + k),
      quote_asset_volume |-> Field("quote_asset_volume", 1000 + k),
      number_of_trades   |-> 7 * k,
      taker_buy_base_asset_volume  |->
          Field("taker_buy_base_asset_volume", 4 + k),
      taker_buy_quote_asset_volume |->
          Field("taker_buy_quote_asset_volume", 400 + k) ]

\* Market::get_klines(symbol, timeframe, limit = BATCH_SIZE, None, end_time):
\* the newest BATCH_SIZE klines with open_time <= end_time, oldest first.
\* garbled is the set of <<k, field>> whose text the exchange garbles.
get_klines(hist, garbled, tf, end_time_ms) ==
    LET interval == timeframe_to_interval(tf)
        idx  == { k \in hist : k * interval <= end_time_ms }
        page == LastN(SortedSeq(idx), BATCH_SIZE)
    IN  [ i \in 1..Len(page) |->
            Kline(tf, page[i], { f[2] : f \in { g \in garbled :
                                                  g[1] = page[i] } }) ]

\* ------------------------------------------------------------------------
\* Store: table candlesticks
\* ------------------------------------------------------------------------

\* The provider every writer of the program names, and the symbol the
\* modelled retrievers, streams and handlers are constructed with.
PROVIDER == "binance"

Symbol == "BTCUSDT"

\* A row of candlesticks written for (PROVIDER, Symbol).
CandleRow(tf, c, interpolated) ==
    [ provider   |-> PROVIDER,
      symbol     |-> Symbol,
      timeframe  |-> tf,
      open_time  |-> c.open_time,
      close_time |-> c.close_time,
      open       |-> c.open,
      high       |-> c.high,
      low        |-> c.low,
      close      |-> c.close,
      volume     |-> c.volume,
      quote_asset_volume |-> c.quote_asset_volume,
      number_of_trades   |-> c.number_of_trades,
      taker_buy_base_asset_volume  |-> c.taker_buy_base_asset_volume,
      taker_buy_quote_asset_volume |-> c.taker_buy_quote_asset_volume,
      interpolated       |-> interpolated ]

\* UNIQUE(provider, symbol, timeframe, open_time): the conflict test.
SameKey(r, row) ==
    /\ r.provider = row.provider
    /\ r.symbol = row.symbol
    /\ r.timeframe = row.timeframe
    /\ r.open_time = row.open_time

\* The parameters insert_batch binds for one kline: every numeric text
\* parsed, 0.0 when it does not parse, and interpolated = 0.
KlineRow(tf, kline) ==
    CandleRow(tf,
              [ open_time  |-> kline.open_time,
                close_time |-> kline.close_time,
                open       |-> parse_f64_or_zero(kline.open),
                high       |-> parse_f64_or_zero(kline.high),
                low        |-> parse_f64_or_zero(kline.low),
                close      |-> parse_f64_or_zero(kline.close),
                volume     |-> parse_f64_or_zero(kline.volume),
                quote_asset_volume |->
                    parse_f64_or_zero(kline.quote_asset_volume),
                number_of_trades   |-> kline.number_of_trades,
                taker_buy_base_asset_volume  |->
                    parse_f64_or_zero(kline.taker_buy_base_asset_volume),
                taker_buy_quote_asset_volume |->
                    parse_f64_or_zero(kline.taker_buy_quote_asset_volume) ],
              0)

\* insert_candle of the isolation and resume tests: a plain INSERT of a
\* fixed candle under the given key, an error when the key is present.
insert_candle(store, provider, symbol, tf, open_time) ==
    LET row == [ provider   |-> provider,
                 symbol     |-> symbol,
                 timeframe  |-> tf,
                 open_time  |-> open_time,
                 close_time |-> open_time + timeframe_to_interval(tf) - 1,
                 open       |-> 50000,
                 high       |-> 50500,
                 low        |-> 49500,
                 close      |-> 50200,
                 volume     |-> 100,
                 quote_asset_volume |-> 5000000,
                 number_of_trades   |-> 1000,
                 taker_buy_base_asset_volume  |-> 50,
                 taker_buy_quote_asset_volume |-> 2500000,
                 interpolated       |-> 0 ]
    IN  IF \E r \in store : SameKey(r, row) THEN store ELSE store \cup {row}

\* INSERT INTO candlesticks without the OR IGNORE conflict clause.
InsertAlways(store, row) == store \cup {row}

\* INSERT OR REPLACE INTO candlesticks: the row takes the place of a row
\* with its key.
InsertOrReplace(store, row) ==
    { r \in store : ~ SameKey(r, row) } \cup {row}

\* INSERT OR IGNORE INTO candlesticks: a row whose key is present is skipped.
InsertOrIgnore(store, row) ==
    IF \E r \in store : SameKey(r, row) THEN store ELSE store \cup {row}

\* The loop of insert_batch: one INSERT OR IGNORE per kline, counting the
\* statements that changed a row.
RECURSIVE InsertKlines(_, _, _, _, _)
InsertKlines(store, tf, klines, i, inserted) ==
    IF i > Len(klines)
    THEN [ store |-> store, inserted |-> inserted ]
    ELSE LET next == InsertOrIgnore(store, KlineRow(tf, klines[i]))
         IN  InsertKlines(next, tf, klines, i + 1,
                          IF next # store THEN inserted + 1 ELSE inserted)

\* insert_batch counting every executed statement, changed row or not.
InsertBatchCountAll(store, tf, klines) ==
    [ store    |-> InsertKlines(store, tf, klines, 1, 0).store,
      inserted |-> Len(klines) ]

\* insert_batch whose statements are counted but never committed.
InsertBatchUncommitted(store, tf, klines) ==
    [ store    |-> store,
      inserted |-> InsertKlines(store, tf, klines, 1, 0).inserted ]

\* CandleRetriever::insert_batch: one transaction, returns the inserted count.
insert_batch(store, tf, klines) == InsertKlines(store, tf, klines, 1, 0)

\* The store as the open transaction of insert_batch sees it once the
\* statements of the first n klines have run.
InsertKlinesUpTo(store, tf, klines, n) ==
    InsertKlines(store, tf, SubSeq(klines, 1, n), 1, 0)

\* A dropped transaction that commits the statements it ran
\* (DropBehavior::Commit).
TxDropCommit(before, working) == working

\* insert_batch returns early through ? with tx not committed: the
\* Transaction is dropped and rolls back (DropBehavior::Rollback, the default
\* of Connection::transaction).
TxDropRollback(before, working) == before

\* SELECT MAX(open_time) over the rows of a timeframe, whatever their symbol.
GetLastCandleTimeAnySymbol(store, provider, symbol, tf) ==
    LET times == { r.open_time : r \in { x \in store : x.timeframe = tf } }
    IN  IF times = {} THEN NULL ELSE Max(times)

\* TimeframeStatus::get_last_candle_time: SELECT MAX(open_time) WHERE
\* provider = ?1 AND symbol = ?2 AND timeframe = ?3; None (NULL) without rows.
get_last_candle_time(store, provider, symbol, tf) ==
    LET times == { r.open_time : r \in { x \in store :
                                             /\ x.provider = provider
                                             /\ x.symbol = symbol
                                             /\ x.timeframe = tf } }
    IN  IF times = {} THEN NULL ELSE Max(times)

\* ------------------------------------------------------------------------
\* Gap interpolator
\* ------------------------------------------------------------------------

\* GapFiller::fetch_candles_in_range for (PROVIDER, Symbol): the rows of the
\* window, ORDER BY open_time ASC.
fetch_candles_in_range(store, tf, start_time, end_time) ==
    LET sel   == { r \in store : /\ r.provider = PROVIDER
                                 /\ r.symbol = Symbol
                                 /\ r.timeframe = tf
                                 /\ r.open_time >= start_time
                                 /\ r.open_time <= end_time }
        times == SortedSeq({ r.open_time : r \in sel })
    IN  [ i \in 1..Len(times) |-> CHOOSE r \in sel : r.open_time = times[i] ]

\* The (delta, j, n) at which the f64 product delta * (j / n) is rounded to
\* the double just below the exact integer delta * j / n, so that the cast to
\* i64 yields one less.  Computed with IEEE-754 doubles for the intervals of
\* Timeframes, n <= 20 and delta within 1 ms of n * interval.
F64RoundsBelow ==
    { <<3300000, 3, 11>>, <<3300000, 6, 11>>, <<4500000, 11, 15>>,
      <<5100000, 13, 17>> }

\* (delta as f64 * ratio) as i64, ratio = j / n as the pair <<j, n>>.
F64MulTrunc(delta, ratio) ==
    LET exact == (delta * ratio[1]) \div ratio[2]
    IN  IF <<delta, ratio[1], ratio[2]>> \in F64RoundsBelow
        THEN exact - 1 ELSE exact

\* The midpoint of a and b, whatever the ratio.
LerpMidpoint(a, b, ratio) == a + (b - a) \div 2

\* a + (b - a) * ratio on fixed-point values.
Lerp(a, b, ratio) == a + ((b - a) * ratio[1]) \div ratio[2]

\* GapFiller::interpolate_candle.
interpolate_candle(current, next, ratio, interval) ==
    LET open_time == current.open_time
                     + F64MulTrunc(next.open_time - current.open_time, ratio) IN
    [ open_time  |-> open_time,
      close_time |-> open_time + interval - 1,
      open       |-> Lerp(current.open, next.open, ratio),
      high       |-> Lerp(current.high, next.high, ratio),
      low        |-> Lerp(current.low, next.low, ratio),
      close      |-> Lerp(current.close, next.close, ratio),
      volume     |-> Lerp(current.volume, next.volume, ratio),
      quote_asset_volume |->
          Lerp(current.quote_asset_volume, next.quote_asset_volume, ratio),
      number_of_trades |->
          Lerp(current.number_of_trades, next.number_of_trades, ratio),
      taker_buy_base_asset_volume |->
          Lerp(current.taker_buy_base_asset_volume,
               next.taker_buy_base_asset_volume, ratio),
      taker_buy_quote_asset_volume |->
          Lerp(current.taker_buy_quote_asset_volume,
               next.taker_buy_quote_asset_volume, ratio) ]

\* The rows of one pair of consecutive candles, bound with interpolated = 0.
GapRowsUnflagged(current, next, tf, interval) ==
    LET time_diff       == next.open_time - current.open_time
        missing_candles == (time_diff \div interval) - 1
    IN  IF time_diff > interval
        THEN [ j \in 1..missing_candles |->
                 CandleRow(tf, interpolate_candle(current, next,
                                   <<j, missing_candles + 1>>, interval), 0) ]
        ELSE <<>>

\* The rows of a fill that treats a pair one interval apart as a gap of one
\* candle.
GapRowsEveryPair(current, next, tf, interval) ==
    LET time_diff       == next.open_time - current.open_time
        missing_candles == time_diff \div interval
    IN  IF time_diff >= interval
        THEN [ j \in 1..missing_candles |->
                 CandleRow(tf, interpolate_candle(current, next,
                                   <<j, missing_candles + 1>>, interval), 1) ]
        ELSE <<>>

\* The rows fill_gaps_in_range emits for one pair of consecutive candles.
GapRows(current, next, tf, interval) ==
    LET time_diff       == next.open_time - current.open_time
        missing_candles == (time_diff \div interval) - 1
    IN  IF time_diff > interval
        THEN [ j \in 1..missing_candles |->
                 CandleRow(tf, interpolate_candle(current, next,
                                   <<j, missing_candles + 1>>, interval), 1) ]
        ELSE <<>>

\* The sliding window of fill_gaps_in_range over the loaded candles.
RECURSIVE WindowRows(_, _, _, _)
WindowRows(candles, i, tf, interval) ==
    IF i >= Len(candles) THEN <<>>
    ELSE GapRows(candles[i], candles[i + 1], tf, interval)
         \o WindowRows(candles, i + 1, tf, interval)

\* The INSERT OR IGNORE statements of the transaction, in order: a row is
\* kept unless its key is in the store or in an earlier row of the list.
InsertRows(store, rows) ==
    store \cup { rows[i] : i \in { n \in 1..Len(rows) :
                      /\ ~ \E r \in store : SameKey(r, rows[n])
                      /\ ~ \E m \in 1..(n - 1) : SameKey(rows[m], rows[n]) } }

\* The write transaction of GapFiller::fill_gaps_in_range on the candles it
\* loaded: total_filled counts every executed insert.
fill_gaps_in_range(store, tf, candles) ==
    IF Len(candles) < 2
    THEN [ store |-> store, filled |-> 0 ]
    ELSE CHOOSE result \in
             { [ store |-> InsertRows(store, rows), filled |-> Len(rows) ] :
                 rows \in { WindowRows(candles, 1, tf,
                                       timeframe_to_interval(tf)) } } : TRUE

\* A count of the pairs that have a gap, not of the candles missing in them.
RECURSIVE CountGapPairs(_, _, _)
CountGapPairs(candles, i, interval) ==
    IF i >= Len(candles) THEN 0
    ELSE LET time_diff == candles[i + 1].open_time - candles[i].open_time
         IN  (IF time_diff > interval THEN 1 ELSE 0)
             + CountGapPairs(candles, i + 1, interval)

\* The sliding window of count_gaps_in_range over the loaded candles.
RECURSIVE CountGaps(_, _, _)
CountGaps(candles, i, interval) ==
    IF i >= Len(candles) THEN 0
    ELSE LET time_diff == candles[i + 1].open_time - candles[i].open_time
         IN  (IF time_diff > interval THEN (time_diff \div interval) - 1 ELSE 0)
             + CountGaps(candles, i + 1, interval)

\* GapFiller::count_gaps_in_range.
count_gaps_in_range(store, tf, start_time, end_time) ==
    LET candles == fetch_candles_in_range(store, tf, start_time, end_time)
    IN  IF Len(candles) < 2 THEN 0
        ELSE CountGaps(candles, 1, timeframe_to_interval(tf))

\* ------------------------------------------------------------------------
\* State
\* ------------------------------------------------------------------------

VARIABLES
    exchange,          \* REST history: timeframe -> set of candle indices
    garbled,           \* <<k, field>>: numeric texts the exchange garbles
    gap_test,          \* the gap-fill test program: position, data, result
    has_is_complete,   \* whether table timeframe_status has column is_complete
    candlesticks,      \* table candlesticks of the symbol's store
    timeframe_status,  \* table timeframe_status: timeframe -> progress cursor
    unit,              \* timeframe -> the CandleRetriever working on it
    driver,            \* run_backfill: position, active_timeframes, floor
    active_streams,    \* run_manager: keys of the registry of stream tasks
    stream_tasks,      \* timeframe -> number of running handle_stream tasks
    cache,             \* partial-candle cache: timeframe -> RealtimeCandle
    last_event,        \* timeframe -> the kline event last handled by its task
    mailbox,           \* command channel of the manager
    manager,           \* run_manager: "running", or "stopped" after Shutdown
    sessions,          \* viewer sessions (WsSession): session -> its state
    last_command,      \* timeframe -> the command last sent for that key
    lookup,            \* a tag and the interval each component maps it to
    save_jobs,         \* spawned save_completed_candle tasks not yet run
    persisted,         \* closed ticks whose save task has completed
    broadcast,         \* the broadcast channel of candle updates
    receiver,          \* one consumer of subscribe_updates and what it received
    store_file,        \* the file <db_dir>/S.db: absent, empty or with tables
    fetch_request,     \* the POST /api/fetch request in progress
    response           \* the answer of the last completed API request

vars == << exchange, garbled, has_is_complete, gap_test, lookup,
           candlesticks, timeframe_status, unit,
           driver, active_streams, stream_tasks, cache, last_event, mailbox,
           manager, sessions, last_command, save_jobs, persisted, broadcast,
           receiver, store_file,
           fetch_request, response >>

backfill_vars == << timeframe_status, unit, driver >>

realtime_vars == << active_streams, stream_tasks, cache, last_event, mailbox,
                    manager, sessions, last_command, save_jobs, persisted,
                    broadcast, receiver >>

web_vars == << store_file, fetch_request, response >>

\* The user floors (--start-date) explored: none, or 02:00 of the epoch day.
FloorChoices == { NULL, 2 * 3600000 }

\* Candle index, and close prices, of the ticks the stream delivers.
TickIdx == {2}
TickCloses == {105, 106}

\* Index of a candle whose open_time in seconds, the unit handle_stream
\* keeps, is the open_time in milliseconds of candle 3 of a 5m history.
GapTickIdx == {3000}

NoCursor == [ exists |-> FALSE, oldest_candle_time |-> NULL, is_complete |-> 0 ]

NoResult == [ status |-> "none", inserted |-> 0, exhausted |-> FALSE ]

IdleUnit ==
    [ pc |-> "idle", mode |-> "none", start_timestamp_ms |-> NULL,
      end_time_ms |-> NULL, klines |-> <<>>, inserted |-> 0,
      candles |-> <<>>, result |-> NoResult, api_errors |-> 0 ]

NoCandle ==
    [ present |-> FALSE, time |-> 0, open |-> 0, high |-> 0, low |-> 0,
      close |-> 0, volume |-> 0, is_closed |-> FALSE ]

\* No kline event handled yet by the stream task of a key.
NoEvent == [ present |-> FALSE, k |-> 0, close |-> 0, is_closed |-> FALSE ]

\* The value slot of a recv that returned no update.
NoUpdate == [ pos |-> NULL, update |-> [ timeframe |-> "", candle |-> NoCandle ] ]

\* The broadcast channel after broadcast::channel: tail is the position the
\* next value takes, buf the retained values, oldest first.
EmptyChannel == [ tail |-> 0, buf |-> <<>> ]

\* The consumer before WsSession::started.
NoReceiver == [ subscribed |-> FALSE, next |-> 0, received |-> <<>> ]

\* The viewer sessions explored.
Sessions == {"a", "b"}

\* A viewer session before its client connects.
NoSession ==
    [ state |-> "new", subscriptions |-> <<>>, next |-> 0, inbox |-> <<>>,
      sent |-> <<>> ]

\* An interval not yet computed, a computed one (in seconds), and a call
\* that panicked.
NotCalled == [ state |-> "none", seconds |-> 0 ]

Returned(seconds) == [ state |-> "ok", seconds |-> seconds ]

Panicked == [ state |-> "panic", seconds |-> 0 ]

\* No tag handed to the components yet.
NoLookup ==
    [ asked |-> FALSE, timeframe |-> "", utils |-> NotCalled,
      gap_filler |-> NotCalled, realtime |-> NotCalled ]

\* The gap-fill test program before it has run.
IdleTest ==
    [ pc |-> "idle", indices |-> {}, filled |-> 0, counted |-> NULL,
      start_time |-> NULL, end_time |-> NULL ]

\* No POST /api/fetch in progress.
IdleRequest == [ pc |-> "idle", timeframe |-> "", iterations |-> 0,
                 total_inserted |-> 0, fetches |-> 0 ]

NoResponse == [ request |-> "none", status |-> "none", error |-> "",
                body |-> {}, candles |-> <<>>, inserted |-> 0,
                iterations |-> 0 ]

\* Empty tables, no retriever, no run, no stream, no consumer, no request.
InitIdle ==
    /\ gap_test = IdleTest
    /\ lookup = NoLookup
    /\ candlesticks = {}
    /\ timeframe_status = [tf \in Timeframes |-> NoCursor]
    /\ unit = [tf \in Timeframes |-> IdleUnit]
    /\ driver = [ pc |-> "idle", active |-> {}, start_timestamp_ms |-> NULL,
                  runs |-> 0, timeframes |-> {}, first_run |-> {} ]
    /\ active_streams = {}
    /\ stream_tasks = [tf \in Timeframes |-> 0]
    /\ cache = [tf \in Timeframes |-> NoCandle]
    /\ last_event = [tf \in Timeframes |-> NoEvent]
    /\ mailbox = <<>>
    /\ manager = "running"
    /\ sessions = [s \in Sessions |-> NoSession]
    /\ last_command = [tf \in Timeframes |-> "none"]
    /\ save_jobs = {}
    /\ persisted = {}
    /\ broadcast = EmptyChannel
    /\ receiver = NoReceiver
    /\ fetch_request = IdleRequest
    /\ response = NoResponse

\* The store file exists with both tables, created by DatabaseManager::new
\* (timeframe_status without is_complete) or by the earlier setup_database
\* (with is_complete); no retriever, no run, no stream.
Init ==
    /\ exchange \in [Timeframes -> HistoryChoices]
    /\ garbled = {}
    /\ has_is_complete \in BOOLEAN
    /\ store_file = "tables"
    /\ InitIdle

\* ------------------------------------------------------------------------
\* Progress ledger
\* ------------------------------------------------------------------------

\* INSERT OR REPLACE INTO timeframe_status (..., is_complete, ...): the
\* statement names column is_complete and fails on a table without it.
StatusWriteOk == has_is_complete

\* TimeframeStatus::update_progress.
update_progress(status, tf, oldest_candle_time) ==
    [ status EXCEPT ![tf] = [ exists |-> TRUE,
                              oldest_candle_time |-> oldest_candle_time,
                              is_complete |-> 0 ] ]

\* TimeframeStatus::mark_complete.
mark_complete(status, tf, oldest_candle_time) ==
    [ status EXCEPT ![tf] = [ exists |-> TRUE,
                              oldest_candle_time |-> oldest_candle_time,
                              is_complete |-> 1 ] ]

\* ------------------------------------------------------------------------
\* Backward fetcher: CandleRetriever
\* ------------------------------------------------------------------------

\* The ledger's read(key): the cursor's oldest_candle_time, if any.
ledger_read(status, tf) ==
    IF status[tf].exists THEN status[tf].oldest_candle_time ELSE NULL

\* fetch_one_batch, step 1: end_time is the ledger's value if present,
\* else now.
fetch_one_batch_end_time(status, tf) ==
    IF ledger_read(status, tf) # NULL THEN ledger_read(status, tf) ELSE Now

\* CandleRetriever::determine_start_point: the newest stored open_time of the
\* key, or now when the key has no candle.
determine_start_point(store, status, tf) ==
    LET last_stored == get_last_candle_time(store, PROVIDER, Symbol, tf)
    IN  IF last_stored # NULL THEN last_stored ELSE Now

\* First step of a retriever: determine_start_point in fetch_and_store, the
\* ledger read in fetch_one_batch.
DetermineStartPoint(tf) ==
    /\ unit[tf].pc = "start"
    /\ unit' = [unit EXCEPT
                  ![tf].pc = "fetch",
                  ![tf].end_time_ms =
                      IF unit[tf].mode = "batch"
                      THEN fetch_one_batch_end_time(timeframe_status, tf)
                      ELSE determine_start_point(candlesticks,
                                                 timeframe_status, tf)]
    /\ UNCHANGED << exchange, garbled, has_is_complete, lookup, gap_test,
                    candlesticks, timeframe_status,
                    driver >>
    /\ UNCHANGED realtime_vars
    /\ UNCHANGED web_vars

\* The result a finished batch hands to its caller: fetch_and_store returns
\* Ok(total); fetch_one_batch returns (inserted, exhausted).
OkResult(inserted, exhausted) ==
    [ status |-> "ok", inserted |-> inserted, exhausted |-> exhausted ]

ErrResult == [ status |-> "err", inserted |-> 0, exhausted |-> FALSE ]

\* fetch_one_batch, step 3: the candles whose close_time >= now are
\* discarded.
discard_in_progress(klines) ==
    SelectSeq(klines, LAMBDA kline : kline.close_time < Now)

\* fetch_batch, in fetch_one_batch followed by step 3; when the page is empty
\* fetch_and_store runs handle_historical_limit_reached and fetch_one_batch
\* returns (0, true).
FetchBatch(tf) ==
    /\ unit[tf].pc = "fetch"
    /\ LET page   == get_klines(exchange[tf], garbled, tf,
                                unit[tf].end_time_ms)
           klines == IF unit[tf].mode = "batch"
                     THEN discard_in_progress(page) ELSE page
       IN
       IF klines = <<>>
       THEN LET oldest_time == get_last_candle_time(candlesticks, PROVIDER,
                                                    Symbol, tf) IN
            IF unit[tf].mode = "batch"
            THEN /\ timeframe_status' = timeframe_status
                 /\ unit' = [unit EXCEPT ![tf].pc = "done",
                                         ![tf].klines = <<>>,
                                         ![tf].inserted = 0,
                                         ![tf].result = OkResult(0, TRUE)]
            ELSE IF StatusWriteOk
            THEN /\ timeframe_status' =
                        mark_complete(timeframe_status, tf, oldest_time)
                 /\ unit' = [unit EXCEPT ![tf].pc = "done",
                                         ![tf].klines = <<>>,
                                         ![tf].inserted = 0,
                                         ![tf].result = OkResult(0, TRUE)]
            ELSE /\ timeframe_status' = timeframe_status
                 /\ unit' = [unit EXCEPT ![tf].pc = "done",
                                         ![tf].klines = <<>>,
                                         ![tf].inserted = 0,
                                         ![tf].result = ErrResult]
       ELSE /\ timeframe_status' = timeframe_status
            /\ unit' = [unit EXCEPT ![tf].pc = "insert",
                                    ![tf].klines = klines]
    /\ UNCHANGED << exchange, garbled, has_is_complete, lookup, gap_test,
                    candlesticks, driver >>
    /\ UNCHANGED realtime_vars
    /\ UNCHANGED web_vars

\* fetch_batch returns Err (network, 5xx, rate limit): fetch_and_store
\* prints the error, sleeps 5 s and continues its loop with the same
\* end_time_ms; fetch_one_batch (step 2) sleeps and returns the error.
FetchBatchFails(tf) ==
    /\ unit[tf].pc = "fetch"
    /\ unit[tf].api_errors < MaxApiErrors
    /\ unit' = IF unit[tf].mode = "batch"
               THEN [unit EXCEPT ![tf].pc = "done",
                                 ![tf].result = ErrResult,
                                 ![tf].api_errors = unit[tf].api_errors + 1]
               ELSE [unit EXCEPT ![tf].pc = "fetch",
                                 ![tf].api_errors = unit[tf].api_errors + 1]
    /\ UNCHANGED << exchange, garbled, has_is_complete, lookup, gap_test,
                    candlesticks, timeframe_status, driver >>
    /\ UNCHANGED realtime_vars
    /\ UNCHANGED web_vars

\* insert_batch in its transaction.
InsertBatch(tf) ==
    /\ unit[tf].pc = "insert"
    /\ LET r == insert_batch(candlesticks, tf, unit[tf].klines) IN
       /\ candlesticks' = r.store
       /\ unit' = [unit EXCEPT ![tf].pc = "progress",
                               ![tf].inserted = r.inserted]
    /\ UNCHANGED << exchange, garbled, has_is_complete, lookup, gap_test,
                    timeframe_status, driver >>
    /\ UNCHANGED realtime_vars
    /\ UNCHANGED web_vars

\* insert_batch fails: stmt.execute of kline n returns an error after the
\* statements of the n - 1 klines before it ran in the transaction
\* (n = len + 1: tx.commit fails).  The error propagates through ? and ends
\* the retriever's call.
InsertBatchFails(tf, n) ==
    /\ unit[tf].pc = "insert"
    /\ n \in 1..(Len(unit[tf].klines) + 1)
    /\ LET working == InsertKlinesUpTo(candlesticks, tf, unit[tf].klines,
                                       n - 1) IN
       /\ candlesticks' = TxDropRollback(candlesticks, working.store)
       /\ unit' = [unit EXCEPT ![tf].pc = "done",
                               ![tf].inserted = working.inserted,
                               ![tf].result = ErrResult]
    /\ UNCHANGED << exchange, garbled, has_is_complete, lookup, gap_test,
                    timeframe_status, driver >>
    /\ UNCHANGED realtime_vars
    /\ UNCHANGED web_vars

\* TimeframeStatus::update_progress(oldest_kline_time)?; an error ends the
\* call before the gap fill.
UpdateProgress(tf) ==
    /\ unit[tf].pc = "progress"
    /\ IF StatusWriteOk
       THEN /\ timeframe_status' =
                   update_progress(timeframe_status, tf,
                                   unit[tf].klines[1].open_time)
            /\ unit' = [unit EXCEPT ![tf].pc = "fill_read"]
       ELSE /\ timeframe_status' = timeframe_status
            /\ unit' = [unit EXCEPT ![tf].pc = "done",
                                    ![tf].result = ErrResult]
    /\ UNCHANGED << exchange, garbled, has_is_complete, lookup, gap_test,
                    candlesticks, driver >>
    /\ UNCHANGED realtime_vars
    /\ UNCHANGED web_vars

\* The end of the window handed to fill_gaps_in_range: end_time_ms in
\* fetch_and_store, the newest open_time of the page in fetch_one_batch.
FillWindowEnd(u) ==
    IF u.mode = "batch" THEN u.klines[Len(u.klines)].open_time
    ELSE u.end_time_ms

\* fill_gaps_in_range, first half: load the window that starts at
\* oldest_kline_time before the write transaction opens.
FillRead(tf) ==
    /\ unit[tf].pc = "fill_read"
    /\ unit' = [unit EXCEPT
                  ![tf].pc = "fill_write",
                  ![tf].candles =
                      fetch_candles_in_range(candlesticks, tf,
                          unit[tf].klines[1].open_time,
                          FillWindowEnd(unit[tf]))]
    /\ UNCHANGED << exchange, garbled, has_is_complete, lookup, gap_test,
                    candlesticks, timeframe_status,
                    driver >>
    /\ UNCHANGED realtime_vars
    /\ UNCHANGED web_vars

\* The floor test with <: a page whose oldest candle is the floor does not
\* reach it.
CheckDateLimitStrict(start_timestamp_ms, oldest_kline_time) ==
    start_timestamp_ms # NULL /\ oldest_kline_time < start_timestamp_ms

\* The test of CandleRetriever::check_date_limit_reached (and of step 9 of
\* fetch_one_batch): a floor is set and the page reached it.
check_date_limit_reached(start_timestamp_ms, oldest_kline_time) ==
    start_timestamp_ms # NULL /\ oldest_kline_time <= start_timestamp_ms

\* fill_gaps_in_range, second half: the insert transaction.  fetch_and_store
\* then sets end_time_ms = oldest_kline_time and runs
\* check_date_limit_reached, which marks the timeframe complete with
\* get_last_candle_time, and loops unless the limit is reached;
\* fetch_one_batch returns (inserted, inserted = 0 or floor reached).
FillWrite(tf) ==
    /\ unit[tf].pc = "fill_write"
    /\ LET u       == unit[tf]
           oldest  == u.klines[1].open_time
           filled  == fill_gaps_in_range(candlesticks, tf, u.candles)
           limit   == check_date_limit_reached(u.start_timestamp_ms, oldest)
       IN
       /\ candlesticks' = filled.store
       /\ timeframe_status' =
             IF limit /\ u.mode = "session"
             THEN mark_complete(timeframe_status, tf,
                                get_last_candle_time(filled.store, PROVIDER,
                                                     Symbol, tf))
             ELSE timeframe_status
       /\ unit' =
             IF u.mode = "session" /\ ~limit
             THEN [unit EXCEPT ![tf].pc = "fetch",
                               ![tf].end_time_ms = oldest,
                               ![tf].candles = <<>>]
             ELSE [unit EXCEPT ![tf].pc = "done",
                               ![tf].end_time_ms = oldest,
                               ![tf].candles = <<>>,
                               ![tf].result =
                                   OkResult(u.inserted,
                                            limit \/ u.inserted = 0)]
    /\ UNCHANGED << exchange, garbled, has_is_complete, lookup, gap_test, driver >>
    /\ UNCHANGED realtime_vars
    /\ UNCHANGED web_vars

\* ------------------------------------------------------------------------
\* Stand-alone retriever sessions: fetch_and_store
\* ------------------------------------------------------------------------

DriverAtRest == driver.pc \in {"idle", "done"}

\* CandleRetriever::new followed by fetch_and_store.
StartFetchAndStore(tf, floor) ==
    /\ DriverAtRest
    /\ unit[tf].pc = "idle"
    /\ unit' = [unit EXCEPT ![tf] = [IdleUnit EXCEPT !.pc = "start",
                                                     !.mode = "session",
                                                     !.start_timestamp_ms = floor]]
    /\ UNCHANGED << exchange, garbled, has_is_complete, lookup, gap_test,
                    candlesticks, timeframe_status,
                    driver >>
    /\ UNCHANGED realtime_vars
    /\ UNCHANGED web_vars

\* fetch_and_store has returned and its retriever is dropped.
SessionReturn(tf) ==
    /\ unit[tf].mode = "session"
    /\ unit[tf].pc = "done"
    /\ unit' = [unit EXCEPT ![tf] = IdleUnit]
    /\ UNCHANGED << exchange, garbled, has_is_complete, lookup, gap_test,
                    candlesticks, timeframe_status,
                    driver >>
    /\ UNCHANGED realtime_vars
    /\ UNCHANGED web_vars

\* The process running fetch_and_store is killed between two statements:
\* committed transactions stay, the retriever's locals are lost.
Crash(tf) ==
    /\ unit[tf].mode = "session"
    /\ unit[tf].pc \notin {"idle", "done"}
    /\ unit' = [unit EXCEPT ![tf] = IdleUnit]
    /\ UNCHANGED << exchange, garbled, has_is_complete, lookup, gap_test,
                    candlesticks, timeframe_status,
                    driver >>
    /\ UNCHANGED realtime_vars
    /\ UNCHANGED web_vars

\* ------------------------------------------------------------------------
\* Backfill driver: run_backfill
\* ------------------------------------------------------------------------

\* run_backfill is called: DatabaseManager::new leaves the existing tables as
\* they are, active_timeframes = options.timeframes.  A later call repeats the
\* options of the first.
RunBackfill(T, floor) ==
    /\ DriverAtRest
    /\ driver.runs < MaxRuns
    /\ \A tf \in Timeframes : unit[tf].pc = "idle"
    /\ driver.runs > 0 =>
          T = driver.timeframes /\ floor = driver.start_timestamp_ms
    /\ driver' = [driver EXCEPT !.pc = "loop", !.active = T,
                                !.timeframes = T,
                                !.start_timestamp_ms = floor,
                                !.runs = driver.runs + 1]
    /\ UNCHANGED << exchange, garbled, has_is_complete, lookup, gap_test,
                    candlesticks, timeframe_status,
                    unit >>
    /\ UNCHANGED realtime_vars
    /\ UNCHANGED web_vars

\* Top of the loop: return when active_timeframes is empty, else spawn one
\* blocking task per active timeframe, each with its own connection and
\* CandleRetriever running fetch_one_batch.
DriverIterate ==
    /\ driver.pc = "loop"
    /\ IF driver.active = {}
       THEN /\ driver' = [driver EXCEPT
                            !.pc = "done",
                            !.first_run = IF driver.runs = 1
                                          THEN candlesticks
                                          ELSE driver.first_run]
            /\ unit' = unit
       ELSE /\ driver' = [driver EXCEPT !.pc = "join"]
            /\ unit' = [tf \in Timeframes |->
                          IF tf \in driver.active
                          THEN [IdleUnit EXCEPT
                                  !.pc = "start", !.mode = "batch",
                                  !.start_timestamp_ms =
                                      driver.start_timestamp_ms]
                          ELSE unit[tf]]
    /\ UNCHANGED << exchange, garbled, has_is_complete, lookup, gap_test,
                    candlesticks, timeframe_status >>
    /\ UNCHANGED realtime_vars
    /\ UNCHANGED web_vars

\* What join_all yields for a task that panicked: Err(JoinError), without
\* the timeframe or a fetch result.
JoinErrorResult ==
    [ status |-> "join_error", inserted |-> 0, exhausted |-> FALSE ]

\* A spawned blocking task panics between two of its steps: an open
\* transaction is rolled back by the unwinding, what was committed stays.
TaskFails(tf) ==
    /\ driver.pc = "join"
    /\ unit[tf].mode = "batch"
    /\ unit[tf].pc \notin {"idle", "done"}
    /\ unit' = [unit EXCEPT ![tf].pc = "done",
                            ![tf].result = JoinErrorResult]
    /\ UNCHANGED << exchange, garbled, has_is_complete, lookup, gap_test,
                    candlesticks, timeframe_status, driver >>
    /\ UNCHANGED realtime_vars
    /\ UNCHANGED web_vars

\* The result loop pushing every timeframe whose unit did not return new
\* rows, failed units included.
ExhaustedOrFailed(active, u) ==
    { tf \in active : \/ u[tf].result.status # "ok"
                      \/ u[tf].result.exhausted
                      \/ u[tf].result.inserted = 0 }

\* The timeframes the result loop of run_backfill pushes to
\* exhausted_timeframes: Ok((inserted, is_exhausted)) with
\* is_exhausted || inserted == 0.
ExhaustedTimeframes(active, u) ==
    { tf \in active : /\ u[tf].result.status = "ok"
                      /\ (u[tf].result.exhausted \/ u[tf].result.inserted = 0) }

\* The result loop entered as soon as one task has finished.
DriverJoinAny ==
    /\ driver.pc = "join"
    /\ \E tf \in driver.active : unit[tf].pc = "done"
    /\ driver' = [driver EXCEPT
                    !.pc = "loop",
                    !.active = driver.active
                               \ ExhaustedTimeframes(driver.active, unit)]
    /\ unit' = [tf \in Timeframes |->
                  IF tf \in driver.active THEN IdleUnit ELSE unit[tf]]
    /\ UNCHANGED << exchange, garbled, has_is_complete, lookup, gap_test,
                    candlesticks, timeframe_status >>
    /\ UNCHANGED realtime_vars
    /\ UNCHANGED web_vars

\* join_all, the result loop and active_timeframes.retain.
DriverJoin ==
    /\ driver.pc = "join"
    /\ \A tf \in driver.active : unit[tf].pc = "done"
    /\ driver' = [driver EXCEPT
                    !.pc = "loop",
                    !.active = driver.active
                               \ ExhaustedTimeframes(driver.active, unit)]
    /\ unit' = [tf \in Timeframes |->
                  IF tf \in driver.active THEN IdleUnit ELSE unit[tf]]
    /\ UNCHANGED << exchange, garbled, has_is_complete, lookup, gap_test,
                    candlesticks, timeframe_status >>
    /\ UNCHANGED realtime_vars
    /\ UNCHANGED web_vars

\* ------------------------------------------------------------------------
\* Realtime manager
\* ------------------------------------------------------------------------

\* A send that puts the command in front of those sent before.
CommandSendFront(box, mgr, cmd) ==
    IF mgr = "running" THEN << cmd >> \o box ELSE box

\* UnboundedSender::send: the command is queued behind those sent before;
\* once the manager has dropped its receiver the send returns an error,
\* which the callers ignore.
command_tx_send(box, mgr, cmd) ==
    IF mgr = "running" THEN Append(box, cmd) ELSE box

\* RealtimeManager::subscribe: send Command::Subscribe.
Subscribe(tf) ==
    /\ Len(mailbox) < MaxMailbox
    /\ mailbox' = command_tx_send(mailbox, manager,
                                  [cmd |-> "Subscribe", timeframe |-> tf])
    /\ last_command' = [last_command EXCEPT ![tf] = "Subscribe"]
    /\ UNCHANGED << exchange, garbled, has_is_complete, lookup, gap_test,
                    manager, sessions,
                    candlesticks, active_streams,
                    stream_tasks, cache, last_event, save_jobs, persisted,
                    broadcast, receiver >>
    /\ UNCHANGED backfill_vars
    /\ UNCHANGED web_vars

\* RealtimeManager::unsubscribe: send Command::Unsubscribe.
Unsubscribe(tf) ==
    /\ Len(mailbox) < MaxMailbox
    /\ mailbox' = command_tx_send(mailbox, manager,
                                  [cmd |-> "Unsubscribe", timeframe |-> tf])
    /\ last_command' = [last_command EXCEPT ![tf] = "Unsubscribe"]
    /\ UNCHANGED << exchange, garbled, has_is_complete, lookup, gap_test,
                    manager, sessions,
                    candlesticks, active_streams,
                    stream_tasks, cache, last_event, save_jobs, persisted,
                    broadcast, receiver >>
    /\ UNCHANGED backfill_vars
    /\ UNCHANGED web_vars

\* Command::Shutdown is sent.  The timeframe slot of the command is unused.
Shutdown ==
    /\ Len(mailbox) < MaxCommands
    /\ manager = "running"
    /\ mailbox' = command_tx_send(mailbox, manager,
                                  [cmd |-> "Shutdown", timeframe |-> ""])
    /\ UNCHANGED << exchange, garbled, has_is_complete, lookup, gap_test,
                    manager, sessions, last_command,
                    candlesticks, active_streams,
                    stream_tasks, cache, last_event, save_jobs, persisted,
                    broadcast, receiver >>
    /\ UNCHANGED backfill_vars
    /\ UNCHANGED web_vars

\* Command::Subscribe spawning handle_stream and registering its handle
\* whether or not the key is in the registry: the earlier handle is replaced
\* and its task keeps running.
SubscribeAlways(streams, tasks, tf) ==
    [ active_streams |-> streams \cup {tf},
      stream_tasks   |-> [tasks EXCEPT ![tf] = @ + 1] ]

\* run_manager on Command::Subscribe: a key already in the registry is
\* skipped; otherwise handle_stream is spawned and its handle registered.
OnSubscribe(streams, tasks, tf) ==
    IF tf \in streams
    THEN [ active_streams |-> streams, stream_tasks |-> tasks ]
    ELSE [ active_streams |-> streams \cup {tf},
           stream_tasks   |-> [tasks EXCEPT ![tf] = @ + 1] ]

\* Command::Unsubscribe that leaves the cache entry in place.
CacheKeep(c, tf) == c

\* cache.write().unwrap().remove(&key).
CacheRemove(c, tf) == [c EXCEPT ![tf] = NoCandle]

\* run_manager on Command::Unsubscribe: a registered handle is removed and
\* aborted and the cache entry evicted; an unknown key is left alone.  The
\* manager and the stream tasks are tasks of one single-threaded runtime
\* (#[actix_web::main]), so the aborted task is suspended at an await, is
\* dropped there and handles no further event.
OnUnsubscribe(streams, tasks, c, events, tf) ==
    IF tf \in streams
    THEN [ active_streams |-> streams \ {tf},
           stream_tasks   |-> [tasks EXCEPT ![tf] = @ - 1],
           cache          |-> CacheRemove(c, tf),
           last_event     |-> [events EXCEPT ![tf] = NoEvent] ]
    ELSE [ active_streams |-> streams, stream_tasks |-> tasks,
           cache |-> c, last_event |-> events ]

\* run_manager on Command::Shutdown: every registered handle is drained and
\* aborted; the cache is not touched.
OnShutdown(streams, tasks, c, events) ==
    [ active_streams |-> {},
      stream_tasks   |-> [tf \in Timeframes |->
                            IF tf \in streams THEN tasks[tf] - 1
                            ELSE tasks[tf]],
      cache          |-> c,
      last_event     |-> [tf \in Timeframes |->
                            IF tf \in streams THEN NoEvent
                            ELSE events[tf]] ]

\* run_manager: receive and apply one command.  After Shutdown the loop is
\* left and the receiver dropped with the commands still queued.
RunManager ==
    /\ manager = "running"
    /\ mailbox # <<>>
    /\ LET cmd == Head(mailbox) IN
       /\ mailbox' = IF cmd.cmd = "Shutdown" THEN <<>> ELSE Tail(mailbox)
       /\ manager' = IF cmd.cmd = "Shutdown" THEN "stopped" ELSE "running"
       /\ IF cmd.cmd = "Subscribe"
          THEN LET r == OnSubscribe(active_streams, stream_tasks,
                                    cmd.timeframe) IN
               /\ active_streams' = r.active_streams
               /\ stream_tasks' = r.stream_tasks
               /\ cache' = cache
               /\ last_event' = last_event
          ELSE LET r == IF cmd.cmd = "Unsubscribe"
                        THEN OnUnsubscribe(active_streams, stream_tasks,
                                           cache, last_event, cmd.timeframe)
                        ELSE OnShutdown(active_streams, stream_tasks,
                                        cache, last_event) IN
               /\ active_streams' = r.active_streams
               /\ stream_tasks' = r.stream_tasks
               /\ cache' = r.cache
               /\ last_event' = r.last_event
    /\ UNCHANGED << exchange, garbled, has_is_complete, lookup, gap_test,
                    sessions, last_command,
                    candlesticks, save_jobs,
                    persisted, broadcast, receiver >>
    /\ UNCHANGED backfill_vars
    /\ UNCHANGED web_vars

\* The RealtimeCandle handle_stream decodes from a kline event of candle k.
DecodeCandle(tf, k, close, is_closed) ==
    [ present   |-> TRUE,
      time      |-> (k * timeframe_to_interval(tf)) \div 1000,
      open      |-> 100 + 2 * k,
      high      |-> 103 + 2 * k,
      low       |-> 99 + 2 * k,
      close     |-> close,
      volume    |-> 10 + k,
      is_closed |-> is_closed ]

\* cache.insert(key, candle) keeping an entry that is already there.
CacheInsertIfAbsent(c, tf, candle) ==
    IF c[tf].present THEN c ELSE [c EXCEPT ![tf] = candle]

\* cache.write().unwrap().insert(key, candle): the entry is replaced.
CacheInsert(c, tf, candle) == [c EXCEPT ![tf] = candle]

\* RealtimeManager::get_candles: under the read lock, the cached candle of
\* each requested timeframe that has one.
get_candles(c, timeframes) ==
    { [ timeframe |-> tf, candle |-> c[tf] ] :
        tf \in { t \in timeframes : c[t].present } }

\* A send on a full channel that keeps the retained values and discards the
\* new one.
BroadcastSendKeepOldest(chan, receivers, update) ==
    IF receivers = 0 THEN chan
    ELSE [ tail |-> chan.tail + 1,
           buf  |-> IF Len(chan.buf) < BroadcastCapacity
                    THEN Append(chan.buf,
                                [ pos |-> chan.tail, update |-> update ])
                    ELSE chan.buf ]

\* broadcast::Sender::send: with no receiver the value is returned to the
\* sender; otherwise it takes position tail and the channel retains the
\* newest BroadcastCapacity values.
broadcast_send(chan, receivers, update) ==
    IF receivers = 0 THEN chan
    ELSE [ tail |-> chan.tail + 1,
           buf  |-> LastN(Append(chan.buf,
                                 [ pos |-> chan.tail, update |-> update ]),
                          BroadcastCapacity) ]

\* broadcast::Receiver::recv that does not advance the receiver's position.
RecvNoAdvance(chan, next) ==
    LET oldest == chan.tail - Len(chan.buf) IN
    IF next < oldest
    THEN [ kind |-> "Lagged", next |-> oldest, value |-> NoUpdate ]
    ELSE [ kind |-> "Ok", next |-> next,
           value |-> chan.buf[next - oldest + 1] ]

\* broadcast::Receiver::recv with a value pending: a receiver that fell
\* behind the retained values gets RecvError::Lagged and resumes at the
\* oldest retained one; otherwise it gets the value at its position.
recv(chan, next) ==
    LET oldest == chan.tail - Len(chan.buf) IN
    IF next < oldest
    THEN [ kind |-> "Lagged", next |-> oldest, value |-> NoUpdate ]
    ELSE [ kind |-> "Ok", next |-> next + 1,
           value |-> chan.buf[next - oldest + 1] ]

\* Number of receivers of the broadcast channel: one per subscribe_updates
\* call.  The listener task of a session keeps its receiver after the
\* session has stopped.
receiver_count(rx, sess) ==
    (IF rx.subscribed THEN 1 ELSE 0)
    + Cardinality({ s \in Sessions : sess[s].state # "new" })

\* handle_stream on one kline event, up to its next await: replace the cache
\* entry, spawn the save task when the candle is closed, and send the update
\* on the broadcast channel.
KlineEvent(tf, k, close, is_closed) ==
    /\ stream_tasks[tf] > 0
    /\ receiver_count(receiver, sessions) > 0 => broadcast.tail < MaxUpdates
    /\ LET candle == DecodeCandle(tf, k, close, is_closed) IN
       /\ cache' = CacheInsert(cache, tf, candle)
       /\ last_event' = [last_event EXCEPT
                           ![tf] = [ present |-> TRUE, k |-> k,
                                     close |-> close,
                                     is_closed |-> is_closed ]]
       /\ save_jobs' =
             IF is_closed
             THEN save_jobs \cup { [ timeframe |-> tf,
                                     candle |-> candle,
                                     start_time |-> k * timeframe_to_interval(tf) ] }
             ELSE save_jobs
       /\ broadcast' =
             broadcast_send(broadcast, receiver_count(receiver, sessions),
                            [ timeframe |-> tf, candle |-> candle ])
    /\ UNCHANGED << exchange, garbled, has_is_complete, lookup, gap_test,
                    manager, sessions, last_command,
                    candlesticks, active_streams,
                    stream_tasks, mailbox, persisted, receiver >>
    /\ UNCHANGED backfill_vars
    /\ UNCHANGED web_vars

\* The row save_completed_candle binds to its INSERT.
SavedRow(tf, candle) ==
    CandleRow(tf,
              [ open_time  |-> candle.time,
                close_time |-> candle.time + timeframe_to_seconds(tf) - 1,
                open       |-> candle.open,
                high       |-> candle.high,
                low        |-> candle.low,
                close      |-> candle.close,
                volume     |-> candle.volume,
                quote_asset_volume |-> 0,
                number_of_trades   |-> 0,
                taker_buy_base_asset_volume  |-> 0,
                taker_buy_quote_asset_volume |-> 0 ],
              0)

\* RealtimeManager::save_completed_candle: INSERT OR IGNORE of the row.
save_completed_candle(store, tf, candle) ==
    InsertOrIgnore(store, SavedRow(tf, candle))

\* A spawned save task runs.
SaveCompletedCandle(job) ==
    /\ job \in save_jobs
    /\ candlesticks' = save_completed_candle(candlesticks, job.timeframe,
                                             job.candle)
    /\ save_jobs' = save_jobs \ {job}
    /\ persisted' = persisted \cup { [ timeframe  |-> job.timeframe,
                                       start_time |-> job.start_time ] }
    /\ UNCHANGED << exchange, garbled, has_is_complete, lookup, gap_test,
                    manager, sessions, last_command,
                    active_streams, stream_tasks,
                    cache, last_event, mailbox, broadcast, receiver >>
    /\ UNCHANGED backfill_vars
    /\ UNCHANGED web_vars

\* WsSession::start_broadcast_listener: subscribe_updates() creates a
\* receiver positioned at the tail of the channel.
SubscribeUpdates ==
    /\ ~ receiver.subscribed
    /\ receiver' = [ subscribed |-> TRUE, next |-> broadcast.tail,
                     received |-> <<>> ]
    /\ UNCHANGED << exchange, garbled, has_is_complete, lookup, gap_test,
                    manager, sessions, last_command,
                    candlesticks, active_streams,
                    stream_tasks, cache, last_event, mailbox, save_jobs,
                    persisted, broadcast >>
    /\ UNCHANGED backfill_vars
    /\ UNCHANGED web_vars

\* One turn of the listener's loop: rx.recv() returns an update, which is
\* handed to the session with do_send, or RecvError::Lagged, which is logged.
BroadcastListener ==
    /\ receiver.subscribed
    /\ receiver.next < broadcast.tail
    /\ LET r == recv(broadcast, receiver.next) IN
       receiver' = [ receiver EXCEPT
                       !.next = r.next,
                       !.received = IF r.kind = "Ok"
                                    THEN Append(@, r.value)
                                    ELSE @ ]
    /\ UNCHANGED << exchange, garbled, has_is_complete, lookup, gap_test,
                    manager, sessions, last_command,
                    candlesticks, active_streams,
                    stream_tasks, cache, last_event, mailbox, save_jobs,
                    persisted, broadcast >>
    /\ UNCHANGED backfill_vars
    /\ UNCHANGED web_vars

\* GET /api/realtime/candles: answer with RealtimeManager::get_candles.
GetRealtimeCandles(timeframes) ==
    /\ response' = [ NoResponse EXCEPT
                       !.request = "realtime_candles", !.status = "ok",
                       !.body = get_candles(cache, timeframes) ]
    /\ UNCHANGED << exchange, garbled, has_is_complete, lookup, gap_test,
                    candlesticks >>
    /\ UNCHANGED backfill_vars
    /\ UNCHANGED realtime_vars
    /\ UNCHANGED << store_file, fetch_request >>

\* ------------------------------------------------------------------------
\* Viewer sessions: WsSession
\* ------------------------------------------------------------------------

\* WsSession::started: the heartbeat and the broadcast listener, whose
\* receiver is positioned at the tail of the channel.
WsStarted(s) ==
    /\ sessions[s].state = "new"
    /\ sessions' = [sessions EXCEPT ![s].state = "open",
                                    ![s].next = broadcast.tail]
    /\ UNCHANGED << exchange, garbled, has_is_complete, lookup, gap_test,
                    candlesticks, active_streams, stream_tasks, cache,
                    last_event, mailbox, manager, last_command, save_jobs,
                    persisted, broadcast, receiver >>
    /\ UNCHANGED backfill_vars
    /\ UNCHANGED web_vars

\* subscriptions.retain(|(s, t)| !(s == &symbol && t == tf)).
retain_other(subscriptions, tf) ==
    SelectSeq(subscriptions, LAMBDA t : t # tf)

\* StreamHandler::handle on the client message subscribe of one timeframe:
\* realtime.subscribe, then push on subscriptions.
WsSubscribe(s, tf) ==
    /\ sessions[s].state = "open"
    /\ Len(mailbox) < MaxCommands
    /\ Len(sessions[s].subscriptions) < MaxSubscriptions
    /\ mailbox' = command_tx_send(mailbox, manager,
                                  [cmd |-> "Subscribe", timeframe |-> tf])
    /\ last_command' = [last_command EXCEPT ![tf] = "Subscribe"]
    /\ sessions' = [sessions EXCEPT ![s].subscriptions = Append(@, tf)]
    /\ UNCHANGED << exchange, garbled, has_is_complete, lookup, gap_test,
                    candlesticks, active_streams, stream_tasks, cache,
                    last_event, manager, save_jobs, persisted, broadcast,
                    receiver >>
    /\ UNCHANGED backfill_vars
    /\ UNCHANGED web_vars

\* StreamHandler::handle on the client message unsubscribe of one
\* timeframe: realtime.unsubscribe, then retain.
WsUnsubscribe(s, tf) ==
    /\ sessions[s].state = "open"
    /\ Len(mailbox) < MaxCommands
    /\ mailbox' = command_tx_send(mailbox, manager,
                                  [cmd |-> "Unsubscribe", timeframe |-> tf])
    /\ last_command' = [last_command EXCEPT ![tf] = "Unsubscribe"]
    /\ sessions' = [sessions EXCEPT
                      ![s].subscriptions = retain_other(@, tf)]
    /\ UNCHANGED << exchange, garbled, has_is_complete, lookup, gap_test,
                    candlesticks, active_streams, stream_tasks, cache,
                    last_event, manager, save_jobs, persisted, broadcast,
                    receiver >>
    /\ UNCHANGED backfill_vars
    /\ UNCHANGED web_vars

\* The Unsubscribe commands WsSession::stopped sends, one per entry of
\* subscriptions, in the order of the list.
RECURSIVE StoppedCommands(_, _, _)
StoppedCommands(box, mgr, subscriptions) ==
    IF subscriptions = <<>> THEN box
    ELSE StoppedCommands(
             command_tx_send(box, mgr,
                             [ cmd |-> "Unsubscribe",
                               timeframe |-> Head(subscriptions) ]),
             mgr, Tail(subscriptions))

\* WsSession::stopped (the client disconnected or the heartbeat timed out):
\* realtime.unsubscribe for every entry of subscriptions; the actor and its
\* pending messages are dropped.
WsStopped(s) ==
    /\ sessions[s].state = "open"
    /\ Len(mailbox) + Len(sessions[s].subscriptions) <= MaxCommands
    /\ mailbox' = StoppedCommands(mailbox, manager,
                                  sessions[s].subscriptions)
    /\ last_command' =
          [tf \in Timeframes |->
             IF \E i \in 1..Len(sessions[s].subscriptions) :
                   sessions[s].subscriptions[i] = tf
             THEN "Unsubscribe" ELSE last_command[tf]]
    /\ sessions' = [sessions EXCEPT ![s].state = "closed",
                                    ![s].subscriptions = <<>>,
                                    ![s].inbox = <<>>]
    /\ UNCHANGED << exchange, garbled, has_is_complete, lookup, gap_test,
                    candlesticks, active_streams, stream_tasks, cache,
                    last_event, manager, save_jobs, persisted, broadcast,
                    receiver >>
    /\ UNCHANGED backfill_vars
    /\ UNCHANGED web_vars

\* One turn of the loop start_broadcast_listener spawns for session s:
\* rx.recv() returns an update, which addr.do_send queues for the actor, or
\* RecvError::Lagged, which is logged.  The turns made after the session
\* has stopped reach no actor and are left out.
WsListener(s) ==
    /\ sessions[s].state = "open"
    /\ sessions[s].next < broadcast.tail
    /\ LET r == recv(broadcast, sessions[s].next) IN
       sessions' = [sessions EXCEPT
                      ![s].next = r.next,
                      ![s].inbox = IF r.kind = "Ok"
                                   THEN Append(@, r.value.update)
                                   ELSE @]
    /\ UNCHANGED << exchange, garbled, has_is_complete, lookup, gap_test,
                    candlesticks, active_streams, stream_tasks, cache,
                    last_event, mailbox, manager, last_command, save_jobs,
                    persisted, broadcast, receiver >>
    /\ UNCHANGED backfill_vars
    /\ UNCHANGED web_vars

\* Handler<BroadcastUpdate>::handle forwarding every update, whatever the
\* subscriptions.
ForwardAll(subscriptions, update) == TRUE

\* Handler<BroadcastUpdate>::handle: the filter
\* subscriptions.contains(&(update.symbol, update.timeframe)).
subscriptions_contains(subscriptions, update) ==
    \E i \in 1..Len(subscriptions) : subscriptions[i] = update.timeframe

\* Handler<BroadcastUpdate>::handle on the first queued update: ctx.text of
\* the candle_update when the filter passes.
WsHandleUpdate(s) ==
    /\ sessions[s].state = "open"
    /\ sessions[s].inbox # <<>>
    /\ LET update == Head(sessions[s].inbox) IN
       sessions' = [sessions EXCEPT
                      ![s].inbox = Tail(@),
                      ![s].sent =
                          IF subscriptions_contains(
                                 sessions[s].subscriptions, update)
                          THEN Append(@, update) ELSE @]
    /\ UNCHANGED << exchange, garbled, has_is_complete, lookup, gap_test,
                    candlesticks, active_streams, stream_tasks, cache,
                    last_event, mailbox, manager, last_command, save_jobs,
                    persisted, broadcast, receiver >>
    /\ UNCHANGED backfill_vars
    /\ UNCHANGED web_vars

\* ------------------------------------------------------------------------
\* HTTP API of the web server
\* ------------------------------------------------------------------------

\* const MAX_ITERATIONS in fetch_gaps.
MAX_ITERATIONS == 10

\* Connection::open(path): rusqlite opens with SQLITE_OPEN_READ_WRITE |
\* SQLITE_OPEN_CREATE, so a missing file is created, with no table in it.
Connection_open(file) == IF file = "absent" THEN "empty" ELSE file

\* The answer of an API request; candles is the JSON array a candle read
\* answers with.
HttpResponse(request, status, error, body, inserted, iterations) ==
    [ request |-> request, status |-> status, error |-> error,
      body |-> body, candles |-> <<>>, inserted |-> inserted,
      iterations |-> iterations ]

\* limit of a candle read that names none (query.limit.unwrap_or(2000)).
DefaultLimit == 2000

\* parse_timeframe_seconds: the suffixes m, h and d are known, every other
\* tag yields 0.
parse_timeframe_seconds(tf) ==
    CASE TfUnit(tf) = "m" -> TfNum(tf) * 60
      [] TfUnit(tf) = "h" -> TfNum(tf) * 3600
      [] TfUnit(tf) = "d" -> TfNum(tf) * 86400
      [] OTHER            -> 0

\* The timeframes find_smaller_timeframe tries, in the order of its list.
ResampleTimeframes ==
    << "5m", "15m", "30m", "1h", "2h", "4h", "6h", "8h", "12h", "1d", "3d" >>

\* No timeframe (None).
NoTimeframe == ""

\* find_smaller_timeframe: going down the list, the first timeframe shorter
\* than the target with COUNT(*) > 0 for ('binance', symbol).
find_smaller_timeframe(store, symbol, target_tf) ==
    LET target_seconds == parse_timeframe_seconds(target_tf)
        found == { i \in 1..Len(ResampleTimeframes) :
                     /\ parse_timeframe_seconds(ResampleTimeframes[i])
                           < target_seconds
                     /\ \E r \in store :
                           /\ r.provider = "binance"
                           /\ r.symbol = symbol
                           /\ r.timeframe = ResampleTimeframes[i] }
    IN  IF found = {} THEN NoTimeframe ELSE ResampleTimeframes[Max(found)]

\* SELECT open_time, open, high, low, close, volume ... WHERE provider =
\* 'binance' AND symbol = ?1 AND timeframe = ?2 ORDER BY open_time ASC, each
\* row as a Candle with time = open_time / 1000 (no start, no end).
SelectCandles(store, symbol, tf) ==
    LET sel   == { r \in store : /\ r.provider = "binance"
                                 /\ r.symbol = symbol
                                 /\ r.timeframe = tf }
        times == SortedSeq({ r.open_time : r \in sel })
    IN  [ i \in 1..Len(times) |->
            LET r == CHOOSE x \in sel : x.open_time = times[i] IN
            [ time |-> r.open_time \div 1000, open |-> r.open,
              high |-> r.high, low |-> r.low, close |-> r.close,
              volume |-> r.volume ] ]

\* The folds of aggregate_candles over a group.
RECURSIVE FoldGroup(_, _, _)
FoldGroup(group, i, acc) ==
    IF i > Len(group) THEN acc
    ELSE FoldGroup(group, i + 1,
             [ high   |-> IF group[i].high > acc.high
                          THEN group[i].high ELSE acc.high,
               low    |-> IF group[i].low < acc.low
                          THEN group[i].low ELSE acc.low,
               volume |-> acc.volume + group[i].volume ])

\* aggregate_candles on a non-empty group.
aggregate_candles(group, period_start) ==
    LET acc == FoldGroup(group, 2, [ high   |-> group[1].high,
                                     low    |-> group[1].low,
                                     volume |-> group[1].volume ])
    IN  [ time |-> period_start, open |-> group[1].open,
          high |-> acc.high, low |-> acc.low,
          close |-> group[Len(group)].close, volume |-> acc.volume ]

\* The grouping loop of resample_candles from source candle i on.
RECURSIVE ResampleFrom(_, _, _, _, _, _)
ResampleFrom(source, i, target_seconds, group, current_start, resampled) ==
    IF i > Len(source)
    THEN IF group # <<>>
         THEN Append(resampled,
                     aggregate_candles(group, current_start))
         ELSE resampled
    ELSE LET period_start ==
                 (source[i].time \div target_seconds) * target_seconds
         IN  IF period_start # current_start
             THEN ResampleFrom(source, i + 1, target_seconds,
                      << source[i] >>, period_start,
                      IF group # <<>>
                      THEN Append(resampled,
                               aggregate_candles(group,
                                                 current_start))
                      ELSE resampled)
             ELSE ResampleFrom(source, i + 1, target_seconds,
                      Append(group, source[i]), current_start,
                      resampled)

\* resample_candles without start and end: the source candles grouped by
\* target period, truncated to limit.
resample_candles(store, symbol, source_tf, target_tf, limit) ==
    LET source == SelectCandles(store, symbol, source_tf)
        target_seconds == parse_timeframe_seconds(target_tf)
    IN  IF source = <<>> THEN <<>>
        ELSE LET resampled ==
                     ResampleFrom(source, 1, target_seconds, <<>>,
                         (source[1].time \div target_seconds)
                             * target_seconds, <<>>)
             IN  SubSeq(resampled, 1,
                        IF Len(resampled) < limit THEN Len(resampled)
                        ELSE limit)

\* GET /api/candles?symbol=Symbol&timeframe=tf&limit=limit on a miss of the
\* answer cache (which holds successful answers only), offset 0: open the
\* store file, select the candles of the key and, when there is none,
\* resample from a smaller timeframe.
GetCandles(tf, limit) ==
    /\ store_file' = Connection_open(store_file)
    /\ response' =
          IF store_file' = "tables"
          THEN LET rows    == SelectCandles(candlesticks, Symbol, tf)
                   candles == SubSeq(rows, 1, IF Len(rows) < limit
                                              THEN Len(rows) ELSE limit)
                   smaller_tf ==
                       find_smaller_timeframe(candlesticks, Symbol, tf)
               IN  [ HttpResponse("candles", "ok", "", {}, 0, 0) EXCEPT
                       !.candles =
                           IF candles = <<>> /\ smaller_tf # NoTimeframe
                           THEN resample_candles(candlesticks, Symbol,
                                                 smaller_tf, tf, limit)
                           ELSE candles ]
          ELSE HttpResponse("candles", "error",
                   "Query error: no such table: candlesticks", {}, 0, 0)
    /\ UNCHANGED << exchange, garbled, has_is_complete, lookup, gap_test,
                    candlesticks, fetch_request >>
    /\ UNCHANGED backfill_vars
    /\ UNCHANGED realtime_vars

\* POST /api/fetch arrives: the blocking closure checks that the store file
\* exists and opens it, or answers with an error.
FetchGaps(tf) ==
    /\ fetch_request.pc = "idle"
    /\ DriverAtRest
    /\ unit[tf].pc = "idle"
    /\ IF store_file = "absent"
       THEN /\ response' = HttpResponse("fetch", "error",
                               "Database not found for symbol", {}, 0, 0)
            /\ fetch_request' = fetch_request
       ELSE /\ response' = response
            /\ fetch_request' = [ pc |-> "loop", timeframe |-> tf,
                                  iterations |-> 0, total_inserted |-> 0,
                                  fetches |-> 0 ]
    /\ store_file' = IF store_file = "absent" THEN store_file
                     ELSE Connection_open(store_file)
    /\ UNCHANGED << exchange, garbled, has_is_complete, lookup, gap_test,
                    candlesticks >>
    /\ UNCHANGED backfill_vars
    /\ UNCHANGED realtime_vars

\* Top of the loop of fetch_gaps: iterations += 1, break and answer when it
\* exceeds MAX_ITERATIONS, else create a CandleRetriever without floor and
\* call fetch_one_batch, which fails at once on a store without tables.
FetchGapsIterate ==
    /\ fetch_request.pc = "loop"
    /\ LET iterations == fetch_request.iterations + 1
           tf         == fetch_request.timeframe
       IN
       IF iterations > MAX_ITERATIONS
       THEN /\ response' = HttpResponse("fetch", "success", "", {},
                               fetch_request.total_inserted, iterations)
            /\ fetch_request' = IdleRequest
            /\ unit' = unit
       ELSE IF store_file # "tables"
       THEN /\ response' = HttpResponse("fetch", "error",
                               "Fetch failed at iteration", {}, 0, iterations)
            /\ fetch_request' = IdleRequest
            /\ unit' = unit
       ELSE /\ response' = response
            /\ fetch_request' = [ fetch_request EXCEPT
                                    !.pc = "wait",
                                    !.iterations = iterations,
                                    !.fetches = @ + 1 ]
            /\ unit' = [unit EXCEPT ![tf] =
                          [IdleUnit EXCEPT !.pc = "start", !.mode = "batch",
                                           !.start_timestamp_ms = NULL]]
    /\ UNCHANGED << exchange, garbled, has_is_complete, lookup, gap_test,
                    candlesticks, timeframe_status,
                    driver, store_file >>
    /\ UNCHANGED realtime_vars

\* fetch_one_batch has returned: Ok adds to total_inserted and breaks, and
\* answers, if inserted == 0 || is_exhausted, else loops; Err answers with
\* the error.
FetchGapsResult ==
    /\ fetch_request.pc = "wait"
    /\ unit[fetch_request.timeframe].pc = "done"
    /\ LET tf     == fetch_request.timeframe
           result == unit[tf].result
           total  == fetch_request.total_inserted + result.inserted
       IN
       /\ unit' = [unit EXCEPT ![tf] = IdleUnit]
       /\ IF result.status # "ok"
          THEN /\ response' = HttpResponse("fetch", "error",
                                  "Fetch failed at iteration", {}, 0,
                                  fetch_request.iterations)
               /\ fetch_request' = IdleRequest
          ELSE IF result.inserted = 0 \/ result.exhausted
          THEN /\ response' = HttpResponse("fetch", "success", "", {},
                                  total, fetch_request.iterations)
               /\ fetch_request' = IdleRequest
          ELSE /\ response' = response
               /\ fetch_request' = [ fetch_request EXCEPT
                                       !.pc = "loop",
                                       !.total_inserted = total ]
    /\ UNCHANGED << exchange, garbled, has_is_complete, lookup, gap_test,
                    candlesticks, timeframe_status,
                    driver, store_file >>
    /\ UNCHANGED realtime_vars

\* ------------------------------------------------------------------------
\* Gap-fill test program (bin/test_gap_fill.rs)
\* ------------------------------------------------------------------------

\* Prices and volumes of the test are held in twelfths, so that the ratios
\* j/6 and j/4 of its two gaps are exact.
TestUnit == 12

\* The candle the test inserts at an index: open 100, 102, ... 108 for
\* 0..4, 130..134 for 10..12, 150..154 for 16..18, high = open + 5,
\* low = open - 5, close = open + 2, volume = 1000 + 100 * index.  The
\* open_time is counted from base_time.
TestCandle(index) ==
    LET interval == timeframe_to_interval("5m")
        open   == 100 + 2 * index + (IF index >= 10 THEN 10 ELSE 0)
                                  + (IF index >= 16 THEN 8 ELSE 0)
        volume == 1000 + 100 * index
    IN  [ open_time  |-> index * interval,
          close_time |-> index * interval + interval - 1,
          open       |-> TestUnit * open,
          high       |-> TestUnit * (open + 5),
          low        |-> TestUnit * (open - 5),
          close      |-> TestUnit * (open + 2),
          volume     |-> TestUnit * volume,
          quote_asset_volume |-> TestUnit * volume * 100,
          number_of_trades   |-> volume \div 10,
          taker_buy_base_asset_volume  |-> (TestUnit * volume * 4) \div 10,
          taker_buy_quote_asset_volume |-> TestUnit * volume * 40 ]

\* The index sets explored: three groups 0..a, b..c and d..18; the test's
\* own data is 0..4, 10..12, 16..18.
TestIndexChoices ==
    { (0..a) \cup (b..c) \cup (d..18) :
        a \in 0..5, b \in 7..11, c \in 11..13, d \in 14..18 }

\* insert_test_data_with_gaps on the freshly created store; the rows are
\* held under the key the gap filler is then called with.
InsertTestData(indices) ==
    /\ gap_test.pc = "idle"
    /\ candlesticks = {}
    /\ candlesticks' = { CandleRow("5m", TestCandle(i), 0) : i \in indices }
    /\ gap_test' = [gap_test EXCEPT !.pc = "inserted", !.indices = indices]
    /\ UNCHANGED << exchange, garbled, has_is_complete, lookup >>
    /\ UNCHANGED backfill_vars
    /\ UNCHANGED realtime_vars
    /\ UNCHANGED web_vars

\* fill_gaps: every candle of the key in ascending order, one interpolated
\* row per missing candle, in one transaction.
FillTestGaps ==
    /\ gap_test.pc = "inserted"
    /\ gap_test.counted = NULL
    /\ LET candles == fetch_candles_in_range(candlesticks, "5m", 0, Now)
           filled  == fill_gaps_in_range(candlesticks, "5m", candles)
       IN  /\ candlesticks' = filled.store
           /\ gap_test' = [gap_test EXCEPT !.pc = "filled",
                                           !.filled = filled.filled]
    /\ UNCHANGED << exchange, garbled, has_is_complete, lookup >>
    /\ UNCHANGED backfill_vars
    /\ UNCHANGED realtime_vars
    /\ UNCHANGED web_vars

\* The window bounds explored, as candle indices of the test data.
WindowChoices == { <<0, 4>>, <<0, 18>>, <<3, 12>>, <<8, 8>>, <<5, 17>> }

\* GapFiller::count_gaps_in_range called on the test store for a window.
CountGapsInRange(window) ==
    /\ gap_test.pc = "inserted"
    /\ gap_test.counted = NULL
    /\ LET interval   == timeframe_to_interval("5m")
           start_time == window[1] * interval
           end_time   == window[2] * interval
       IN  gap_test' = [gap_test EXCEPT
                          !.counted = count_gaps_in_range(
                                          candlesticks, "5m", start_time,
                                          end_time),
                          !.start_time = start_time,
                          !.end_time = end_time]
    /\ UNCHANGED << exchange, garbled, has_is_complete, lookup, candlesticks >>
    /\ UNCHANGED backfill_vars
    /\ UNCHANGED realtime_vars
    /\ UNCHANGED web_vars

\* GapFiller::fill_gaps_in_range called on the test store for the window
\* that was counted, a first and a second time.
FillGapsInRange ==
    /\ gap_test.pc \in {"inserted", "filled"}
    /\ gap_test.counted # NULL
    /\ LET candles == fetch_candles_in_range(candlesticks, "5m",
                                             gap_test.start_time,
                                             gap_test.end_time)
           filled  == fill_gaps_in_range(candlesticks, "5m", candles)
       IN  /\ candlesticks' = filled.store
           /\ gap_test' = [gap_test EXCEPT
                              !.pc = IF gap_test.pc = "inserted"
                                     THEN "filled" ELSE "refilled",
                              !.filled = filled.filled]
    /\ UNCHANGED << exchange, garbled, has_is_complete, lookup >>
    /\ UNCHANGED backfill_vars
    /\ UNCHANGED realtime_vars
    /\ UNCHANGED web_vars

\* A writer of another key calling insert_candle for candle k of a timeframe.
InsertCandle(provider, symbol, tf, k) ==
    /\ candlesticks' = insert_candle(candlesticks, provider, symbol, tf,
                                     k * timeframe_to_interval(tf))
    /\ UNCHANGED << exchange, garbled, has_is_complete, lookup, gap_test,
                    timeframe_status >>
    /\ UNCHANGED << unit, driver >>
    /\ UNCHANGED realtime_vars
    /\ UNCHANGED web_vars

\* ------------------------------------------------------------------------
\* Interval of a timeframe, as each component computes it
\* ------------------------------------------------------------------------

\* A timeframe tag reaches the components (a command-line option, a query
\* parameter, a subscribe message).
AskInterval(tag) ==
    /\ ~ lookup.asked
    /\ lookup' = [lookup EXCEPT !.asked = TRUE, !.timeframe = tag]
    /\ UNCHANGED << exchange, garbled, has_is_complete, gap_test,
                    candlesticks >>
    /\ UNCHANGED backfill_vars
    /\ UNCHANGED realtime_vars
    /\ UNCHANGED web_vars

\* utils::timeframe_to_interval(tag), as verify_data_spacing calls it.
UtilsInterval ==
    /\ lookup.asked
    /\ lookup.utils = NotCalled
    /\ lookup' = [lookup EXCEPT
                    !.utils = Returned(UtilsIntervalSeconds(lookup.timeframe))]
    /\ UNCHANGED << exchange, garbled, has_is_complete, gap_test,
                    candlesticks >>
    /\ UNCHANGED backfill_vars
    /\ UNCHANGED realtime_vars
    /\ UNCHANGED web_vars

\* GapFiller::timeframe_to_interval(tag), as fill_gaps_in_range calls it.
GapFillerInterval ==
    /\ lookup.asked
    /\ lookup.gap_filler = NotCalled
    /\ lookup' = [lookup EXCEPT
                    !.gap_filler =
                        Returned(GapFillerIntervalSeconds(lookup.timeframe))]
    /\ UNCHANGED << exchange, garbled, has_is_complete, gap_test,
                    candlesticks >>
    /\ UNCHANGED backfill_vars
    /\ UNCHANGED realtime_vars
    /\ UNCHANGED web_vars

\* RealtimeManager::timeframe_to_seconds(tag), as save_completed_candle
\* calls it: tf[..tf.len() - 1] panics on the empty tag.
RealtimeInterval ==
    /\ lookup.asked
    /\ lookup.realtime = NotCalled
    /\ lookup' = [lookup EXCEPT
                    !.realtime =
                        IF lookup.timeframe = "" THEN Panicked
                        ELSE Returned(timeframe_to_seconds(lookup.timeframe))]
    /\ UNCHANGED << exchange, garbled, has_is_complete, gap_test,
                    candlesticks >>
    /\ UNCHANGED backfill_vars
    /\ UNCHANGED realtime_vars
    /\ UNCHANGED web_vars

\* ------------------------------------------------------------------------
\* Specification
\* ------------------------------------------------------------------------

RetrieverStep ==
    \E tf \in Timeframes :
        \/ DetermineStartPoint(tf)
        \/ FetchBatch(tf)
        \/ InsertBatch(tf)
        \/ \E n \in 1..(BATCH_SIZE + 1) : InsertBatchFails(tf, n)
        \/ UpdateProgress(tf)
        \/ FillRead(tf)
        \/ FillWrite(tf)

SessionStep ==
    \E tf \in SessionTimeframes :
        \/ \E floor \in FloorChoices : StartFetchAndStore(tf, floor)
        \/ SessionReturn(tf)
        \/ Crash(tf)

DriverStep ==
    \/ \E T \in SUBSET Timeframes, floor \in FloorChoices : RunBackfill(T, floor)
    \/ DriverIterate
    \/ DriverJoin

RealtimeStep ==
    \/ \E tf \in StreamTimeframes : Subscribe(tf) \/ Unsubscribe(tf)
    \/ RunManager
    \/ \E tf \in StreamTimeframes, k \in TickIdx, c \in TickCloses,
          x \in BOOLEAN : KlineEvent(tf, k, c, x)
    \/ \E job \in save_jobs : SaveCompletedCandle(job)

\* The writers of one symbol's store running side by side: stand-alone
\* fetch_and_store sessions (which gap-fill after each page) and the realtime
\* manager with its save tasks.
Next == RetrieverStep \/ SessionStep \/ RealtimeStep

Spec == Init /\ [][Next]_vars

\* The realtime manager alone on a store with its tables, with the readers
\* of its cache.
InitRealtime ==
    /\ Init
    /\ has_is_complete
    /\ exchange = [tf \in Timeframes |-> 1..4]

RealtimeNext ==
    \/ RealtimeStep
    \/ \E timeframes \in SUBSET StreamTimeframes :
          GetRealtimeCandles(timeframes)

SpecRealtime == InitRealtime /\ [][RealtimeNext]_vars

\* Streams on every timeframe delivering updates of open candles, and one
\* consumer of the broadcast channel.
BroadcastNext ==
    \/ \E tf \in Timeframes : Subscribe(tf) \/ Unsubscribe(tf)
    \/ RunManager
    \/ \E tf \in Timeframes, k \in TickIdx, c \in TickCloses :
          KlineEvent(tf, k, c, FALSE)
    \/ SubscribeUpdates
    \/ BroadcastListener

SpecBroadcast == InitRealtime /\ [][BroadcastNext]_vars

\* A fetch_and_store session on a 5m history that lacks candle 3, side by
\* side with a stream whose closed tick is persisted under the key of the
\* missing candle: the gap fill and the save task compete for one key.
InitGapRace ==
    /\ Init
    /\ has_is_complete
    /\ exchange = [tf \in Timeframes |-> {1, 2, 4}]

GapRaceNext ==
    \/ RetrieverStep
    \/ SessionStep
    \/ \E tf \in StreamTimeframes : Subscribe(tf) \/ Unsubscribe(tf)
    \/ RunManager
    \/ \E tf \in StreamTimeframes, k \in GapTickIdx, c \in TickCloses :
          KlineEvent(tf, k, c, TRUE)
    \/ \E job \in save_jobs : SaveCompletedCandle(job)

SpecGapRace == InitGapRace /\ [][GapRaceNext]_vars

\* The histories served to the web server: a short one, and one long
\* enough for a request to reach MAX_ITERATIONS.
WebHistoryChoices == { 1..3, 1..12 }

\* The timeframes and limits candle reads ask for.
RequestTimeframes == Timeframes \cup {"1w"}

LimitChoices == { 1, DefaultLimit }

\* The web server started on a db_dir in which the symbol's store file
\* exists, with its tables, or does not exist.
InitWeb ==
    /\ exchange \in { [tf \in Timeframes |->
                          IF tf \in SessionTimeframes THEN h ELSE 1..3] :
                        h \in WebHistoryChoices }
    /\ garbled = {}
    /\ has_is_complete \in BOOLEAN
    /\ store_file \in {"absent", "tables"}
    /\ InitIdle

\* The requests of the HTTP API and the retrievers fetch_gaps runs.
WebStep ==
    \/ \E tf \in RequestTimeframes, limit \in LimitChoices :
          GetCandles(tf, limit)
    \/ \E tf \in Timeframes : FetchGaps(tf)
    \/ FetchGapsIterate
    \/ FetchGapsResult

WebNext == RetrieverStep \/ WebStep

SpecWeb == InitWeb /\ [][WebNext]_vars

\* The keys other writers fill in the store of the retriever, and the index
\* of the candle they insert (later than every candle of the histories).
OtherKeys ==
    { <<PROVIDER, "ETHUSDT", "5m">>, <<PROVIDER, "ETHUSDT", "1h">>,
      <<PROVIDER, Symbol, "1h">> }

OtherIdx == 9

\* fetch_and_store sessions of Symbol on 5m in a store that also receives
\* candles of another symbol and of another timeframe.
InitIsolation ==
    /\ Init
    /\ has_is_complete
    /\ exchange = [tf \in Timeframes |-> 1..4]

IsolationNext ==
    \/ RetrieverStep
    \/ SessionStep
    \/ \E key \in OtherKeys : InsertCandle(key[1], key[2], key[3], OtherIdx)

SpecIsolation == InitIsolation /\ [][IsolationNext]_vars

\* The gap-fill test program alone on its store.
GapTestNext ==
    \/ \E indices \in TestIndexChoices : InsertTestData(indices)
    \/ FillTestGaps

SpecGapTest == InitRealtime /\ [][GapTestNext]_vars

\* count_gaps_in_range and fill_gaps_in_range called on windows of the test
\* store.
GapCountNext ==
    \/ \E indices \in TestIndexChoices : InsertTestData(indices)
    \/ \E window \in WindowChoices : CountGapsInRange(window)
    \/ FillGapsInRange

SpecGapCount == InitRealtime /\ [][GapCountNext]_vars

\* A tag handed to the three interval mappings of the program.
IntervalsNext ==
    \/ \E tag \in KnownTags \cup UnknownTags : AskInterval(tag)
    \/ UtilsInterval
    \/ GapFillerInterval
    \/ RealtimeInterval

SpecIntervals == InitRealtime /\ [][IntervalsNext]_vars

\* A history that reaches the present: the candle in progress at Now, whose
\* close_time is still ahead, after its closed predecessors, all of them or
\* without the last one.
LiveHistoryChoices(tf) ==
    LET current == Now \div timeframe_to_interval(tf)
    IN  { (current - 3)..current,
          ((current - 3)..current) \ {current - 1} }

\* fetch_and_store sessions against an exchange whose newest kline is the
\* candle in progress.
InitLive ==
    /\ exchange \in [Timeframes ->
                       UNION { LiveHistoryChoices(tf) : tf \in Timeframes }]
    /\ \A tf \in Timeframes : exchange[tf] \in LiveHistoryChoices(tf)
    /\ garbled = {}
    /\ has_is_complete \in BOOLEAN
    /\ store_file = "tables"
    /\ InitIdle

LiveNext == RetrieverStep \/ SessionStep

SpecLive == InitLive /\ [][LiveNext]_vars

\* The numeric texts the exchange may garble: none, the high or the low of
\* candle 2, the open and close of candle 4.
GarbledChoices ==
    { {}, { <<2, "high">> }, { <<2, "low">> },
      { <<4, "open">>, <<4, "close">> } }

\* fetch_and_store sessions against an exchange that serves some numeric
\* fields as text that is not a number.
InitParse ==
    /\ exchange \in { [tf \in Timeframes |-> h] : h \in { 1..4, {1, 2, 4} } }
    /\ garbled \in GarbledChoices
    /\ has_is_complete = TRUE
    /\ store_file = "tables"
    /\ InitIdle

ParseNext == RetrieverStep \/ SessionStep

SpecParse == InitParse /\ [][ParseNext]_vars

\* The realtime manager under the commands of the viewer sessions, on every
\* timeframe, and a Shutdown.
ManagerNext ==
    \/ \E s \in Sessions :
          \/ WsStarted(s)
          \/ \E tf \in Timeframes : WsSubscribe(s, tf) \/ WsUnsubscribe(s, tf)
          \/ WsStopped(s)
    \/ Shutdown
    \/ RunManager

SpecManager == InitRealtime /\ [][ManagerNext]_vars

\* The same with the streams delivering updates of the open candle.
StreamingManagerNext ==
    \/ ManagerNext
    \/ \E tf \in Timeframes, k \in TickIdx :
          KlineEvent(tf, k, 105, FALSE)

SpecStreamingManager == InitRealtime /\ [][StreamingManagerNext]_vars

\* Viewer sessions of one key: their commands, the stream delivering updates
\* of the open candle, the listeners and the forwarding to the clients.
SessionsNext ==
    \/ \E s \in Sessions :
          \/ WsStarted(s)
          \/ \E tf \in StreamTimeframes :
                WsSubscribe(s, tf) \/ WsUnsubscribe(s, tf)
          \/ WsStopped(s)
          \/ WsListener(s)
          \/ WsHandleUpdate(s)
    \/ RunManager
    \/ \E tf \in StreamTimeframes, k \in TickIdx :
          KlineEvent(tf, k, 105, FALSE)

SpecSessions == InitRealtime /\ [][SessionsNext]_vars

\* run_backfill alone on the store, with the retrievers it spawns.
DriverNext == RetrieverStep \/ DriverStep

SpecDriver == Init /\ [][DriverNext]_vars

\* The same under the scheduling of the runtime: a spawned blocking task
\* runs to its return, and the driver's loop proceeds once join_all returns.
\* Calling run_backfill is left to the user.
FairSpecDriver ==
    /\ Init
    /\ [][DriverNext]_vars
    /\ WF_vars(RetrieverStep)
    /\ WF_vars(DriverIterate)
    /\ WF_vars(DriverJoin)

\* run_backfill with units that return errors and tasks that panic.
FaultyDriverNext == DriverNext \/ \E tf \in Timeframes : TaskFails(tf)

SpecDriverFaults == InitRealtime /\ [][FaultyDriverNext]_vars

\* fetch_and_store sessions and run_backfill against an exchange whose
\* calls may fail.
OutageNext ==
    \/ RetrieverStep
    \/ SessionStep
    \/ DriverStep
    \/ \E tf \in Timeframes : FetchBatchFails(tf)

SpecOutage == InitRealtime /\ [][OutageNext]_vars

\* Histories at the edges of a batch: no candle at all, only the candle in
\* progress at Now, and closed candles followed by the candle in progress.
EdgeHistoryChoices(tf) ==
    LET current == Now \div timeframe_to_interval(tf)
    IN  { {}, {current}, {1, 2, 3, current} }

\* run_backfill on a store with the is_complete column against these
\* histories.
InitEdge ==
    /\ exchange \in [Timeframes ->
                       UNION { EdgeHistoryChoices(tf) : tf \in Timeframes }]
    /\ \A tf \in Timeframes : exchange[tf] \in EdgeHistoryChoices(tf)
    /\ garbled = {}
    /\ has_is_complete = TRUE
    /\ store_file = "tables"
    /\ InitIdle

SpecEdge == InitEdge /\ [][DriverNext]_vars

\* ------------------------------------------------------------------------
\* Properties
\* ------------------------------------------------------------------------

\* The open_times stored for a timeframe.
KeyTimes(store, tf) ==
    { r.open_time : r \in { x \in store : x.timeframe = tf } }

\* a and b are neighbouring elements of the set of times T.
Adjacent(T, a, b) ==
    a \in T /\ b \in T /\ a < b /\ ~ \E c \in T : a < c /\ c < b

\* C1: whatever the interleaving of batch inserts, gap fills and realtime
\* closed-candle persists on the store, no two stored candles have the same
\* (provider, symbol, timeframe, open_time).
C1_UniqueKey ==
    \A r1 \in candlesticks, r2 \in candlesticks : SameKey(r1, r2) => r1 = r2

\* A page that overlapped stored rows has been inserted while the store
\* holds an interpolated row, and a second close of an already persisted
\* candle, with another close price, has been saved and ignored.
C1_Witness ==
    /\ \E tf \in Timeframes : /\ unit[tf].pc = "progress"
                              /\ unit[tf].inserted < Len(unit[tf].klines)
    /\ \E r \in candlesticks : r.interpolated = 1
    /\ \E tf \in StreamTimeframes :
          /\ cache[tf].present /\ cache[tf].is_closed
          /\ save_jobs = {} /\ persisted # {}
          /\ SavedRow(tf, cache[tf]) \notin candlesticks

\* C2: the progress cursor's oldest_candle_time of a timeframe never
\* increases, across the batches of a run, of a resumed run, and the final
\* batch that finds the history exhausted.
C2_CursorNeverIncreases ==
    [][\A tf \in Timeframes :
          ( /\ timeframe_status[tf].exists
            /\ timeframe_status[tf].oldest_candle_time # NULL
            /\ timeframe_status'[tf].oldest_candle_time # NULL )
          => timeframe_status'[tf].oldest_candle_time
                 <= timeframe_status[tf].oldest_candle_time]_vars

C4_RunBackfillTerminates ==
    (driver.pc \in {"loop", "join"}) ~> (driver.pc = "done")

\* C5: a second run of the driver, after a first run has completed on the
\* same history, adds no row: the store never changes during run 2 and
\* equals the store run 1 left, no two rows share a key, and the first
\* iteration of run 2 reports every timeframe exhausted.
C5_SecondRunAddsNothing ==
    /\ []( (driver.runs = 2 /\ driver.pc = "done")
           => /\ candlesticks = driver.first_run
              /\ \A r1 \in candlesticks, r2 \in candlesticks :
                    SameKey(r1, r2) => r1 = r2 )
    /\ [][ driver.runs = 2
           => /\ candlesticks' = candlesticks
              /\ (driver.pc = "join" /\ driver'.pc = "loop")
                    => driver'.active = {} ]_vars

\* The end times a page request can carry for a timeframe.
EndChoices(tf) ==
    { k * timeframe_to_interval(tf) : k \in exchange[tf] } \cup {Now}

\* C6: on every reachable store and for every page of klines, a second
\* insert_batch of the same list leaves the store as the first call left it
\* and returns inserted = 0.
C6_InsertBatchIdempotent ==
    \A tf \in Timeframes : \A end_time_ms \in EndChoices(tf) :
        LET klines == get_klines(exchange[tf], garbled, tf, end_time_ms)
            once   == insert_batch(candlesticks, tf, klines)
            twice  == insert_batch(once.store, tf, klines)
        IN  twice.store = once.store /\ twice.inserted = 0

\* A retriever has just inserted a page with new rows, and inserting the
\* same page again counts nothing.
C6_Witness ==
    \E tf \in Timeframes :
        /\ unit[tf].pc = "progress"
        /\ unit[tf].inserted > 0
        /\ insert_batch(candlesticks, tf, unit[tf].klines).inserted = 0
        /\ insert_batch(candlesticks, tf, unit[tf].klines).store = candlesticks

\* C7: once fill_gaps_in_range has returned for the window
\* [oldest_kline_time, end_time_ms], every two stored candles of the key
\* with adjacent open_times inside the window are exactly one interval apart.
C7_FilledWindowIsContiguous ==
    [][\A tf \in Timeframes :
          (unit[tf].pc = "fill_write" /\ unit'[tf].pc \in {"fetch", "done"})
          => LET T == { t \in KeyTimes(candlesticks', tf) :
                          /\ t >= unit[tf].klines[1].open_time
                          /\ t <= FillWindowEnd(unit[tf]) }
             IN  \A a \in T, b \in T :
                    Adjacent(T, a, b) => b - a = timeframe_to_interval(tf)]_vars

\* C8: once the save task of a closed tick has run, the store holds exactly
\* one row for that candle (the tick's timeframe and open_time) and it has
\* interpolated = false.
C8_ClosedTickStoredOnce ==
    \A p \in persisted :
        Cardinality({ r \in candlesticks : /\ r.timeframe = p.timeframe
                                           /\ r.open_time = p.start_time
                                           /\ r.interpolated = 0 }) = 1

\* C9: every stored candle has close_time = open_time + interval - 1, both
\* in milliseconds.
C9_CloseTimeFromOpenTime ==
    \A r \in candlesticks :
        r.close_time = r.open_time + timeframe_to_interval(r.timeframe) - 1

\* C10: for every timeframe, the open_times of two adjacent stored candles
\* differ by a positive multiple of the interval.
C10_AdjacentOnGrid ==
    \A tf \in Timeframes :
        LET T == KeyTimes(candlesticks, tf) IN
        \A a \in T, b \in T :
            Adjacent(T, a, b)
            => (b - a > 0 /\ (b - a) % timeframe_to_interval(tf) = 0)

\* C11: the realtime manager runs at most one stream task per timeframe of
\* the symbol, the registry holding exactly the keys that have one; and when
\* it processes a subscribe for a key that is already active, the registry,
\* the running tasks and the cache stay as they are.
C11_OneStreamTaskPerKey ==
    /\ [](\A tf \in Timeframes :
            /\ stream_tasks[tf] <= 1
            /\ (tf \in active_streams <=> stream_tasks[tf] = 1))
    /\ [][ ( /\ mailbox # <<>>
             /\ mailbox' = Tail(mailbox)
             /\ Head(mailbox).cmd = "Subscribe"
             /\ Head(mailbox).timeframe \in active_streams )
           => UNCHANGED << active_streams, stream_tasks, cache >> ]_vars

\* The manager is about to process a subscribe for a key whose stream task
\* is running and has filled the cache.
C11_Witness ==
    \E tf \in Timeframes :
        /\ mailbox # <<>>
        /\ Head(mailbox) = [cmd |-> "Subscribe", timeframe |-> tf]
        /\ tf \in active_streams
        /\ stream_tasks[tf] = 1
        /\ cache[tf].present

\* C12: a key that is not in the registry (never subscribed, or unsubscribed
\* and not yet subscribed again) has no running stream task and get_candles
\* returns no candle for it, however ticks and commands interleave; and when
\* the manager processes an unsubscribe for a key that is not active, the
\* registry, the running tasks and the cache stay as they are.
C12_UnsubscribeStopsAndEvicts ==
    /\ [](\A tf \in Timeframes :
            tf \notin active_streams
            => /\ stream_tasks[tf] = 0
               /\ get_candles(cache, {tf}) = {})
    /\ [][ ( /\ mailbox # <<>>
             /\ mailbox' = Tail(mailbox)
             /\ Head(mailbox).cmd = "Unsubscribe"
             /\ Head(mailbox).timeframe \notin active_streams )
           => UNCHANGED << active_streams, stream_tasks, cache >> ]_vars

\* The stream task of a key handled a closed tick, whose save task is still
\* pending, and the manager has since processed an unsubscribe for the key.
C12_Witness ==
    \E tf \in Timeframes :
        /\ \E job \in save_jobs : job.timeframe = tf
        /\ tf \notin active_streams
        /\ stream_tasks[tf] = 0
        /\ ~ cache[tf].present
        /\ mailbox = <<>>

\* C13: a stored candle row is never modified or deleted: every row of the
\* store, with all its values and its interpolated flag, is still in the
\* store after any step of a batch insert, a gap fill or a realtime persist.
C13_RowsNeverChange ==
    [][\A r \in candlesticks : r \in candlesticks']_vars

\* A page whose keys were all stored has been inserted and counted nothing,
\* and the save task of a second close of a persisted candle, with another
\* close price, has run and left the first row in place.
C13_Witness ==
    /\ \E tf \in Timeframes :
          /\ unit[tf].pc = "progress"
          /\ unit[tf].inserted = 0
          /\ \A i \in 1..Len(unit[tf].klines) :
                KlineRow(tf, unit[tf].klines[i]) \in candlesticks
    /\ \E tf \in StreamTimeframes :
          /\ cache[tf].present /\ cache[tf].is_closed /\ save_jobs = {}
          /\ \E r \in candlesticks :
                /\ SameKey(r, SavedRow(tf, cache[tf]))
                /\ r.close # cache[tf].close

\* C14: when insert_batch fails part-way through a batch, the store is
\* exactly as it was before the call: none of the rows its statements
\* inserted before the failure is persisted.
C14_FailedBatchPersistsNothing ==
    [][\A tf \in Timeframes :
          (unit[tf].pc = "insert" /\ unit'[tf].pc = "done")
          => candlesticks' = candlesticks]_vars

\* insert_batch failed after statements of the batch had inserted new rows,
\* and no row of the page is in the store.
C14_Witness ==
    \E tf \in Timeframes :
        /\ unit[tf].pc = "done"
        /\ unit[tf].result = ErrResult
        /\ unit[tf].inserted > 0
        /\ \A i \in 1..Len(unit[tf].klines) :
              KlineRow(tf, unit[tf].klines[i]) \notin candlesticks

\* The step is the insert transaction of fill_gaps_in_range for timeframe tf.
GapFillStep(tf) ==
    unit[tf].pc = "fill_write" /\ unit'[tf].pc \in {"fetch", "done"}

\* C15: a row enters the store with interpolated = 1 exactly when the gap
\* interpolator inserts it, rows inserted by insert_batch and by the realtime
\* save task have interpolated = 0, and a real row stays in the store with
\* no interpolated row taking its key, however a gap fill interleaves with
\* the other writers.
C15_InterpolatedOnlyByGapFill ==
    [][ /\ \A r \in candlesticks' \ candlesticks :
              /\ r.interpolated \in {0, 1}
              /\ r.interpolated = 1 <=> GapFillStep(r.timeframe)
        /\ \A r \in candlesticks :
              r.interpolated = 0
              => /\ r \in candlesticks'
                 /\ ~ \E q \in candlesticks' :
                        SameKey(q, r) /\ q.interpolated = 1 ]_vars

\* A gap fill has loaded a window whose candles 2 and 4 are adjacent and is
\* about to insert the interpolated candle 3, and the save task of a closed
\* tick has meanwhile stored a real row under the key of candle 3.
C15_Witness ==
    \E tf \in Timeframes :
        /\ unit[tf].pc = "fill_write"
        /\ \E i \in 1..(Len(unit[tf].candles) - 1) :
              /\ unit[tf].candles[i + 1].open_time
                     - unit[tf].candles[i].open_time
                 = 2 * timeframe_to_interval(tf)
              /\ \E r \in candlesticks :
                    /\ r.timeframe = tf
                    /\ r.open_time = unit[tf].candles[i].open_time
                                         + timeframe_to_interval(tf)
                    /\ r.interpolated = 0
        /\ persisted # {}

\* C16: a step in which a stream task handles a tick with is_closed = false
\* writes nothing to the store and spawns no save task; and every row a save
\* task writes comes from a closed tick, carries that tick's timeframe and
\* open_time, has quote_asset_volume and both taker_buy columns equal to
\* zero and interpolated = 0.
C16_RealtimeRowsFromClosedTicks ==
    [][ /\ \A tf \in Timeframes :
              ( /\ cache'[tf] # cache[tf]
                /\ cache'[tf].present
                /\ ~ cache'[tf].is_closed )
              => candlesticks' = candlesticks /\ save_jobs' = save_jobs
        /\ \A job \in save_jobs \ save_jobs' :
              /\ job.candle.is_closed
              /\ \A r \in candlesticks' \ candlesticks :
                    /\ r.timeframe = job.timeframe
                    /\ r.open_time = job.start_time
                    /\ r.quote_asset_volume = 0
                    /\ r.taker_buy_base_asset_volume = 0
                    /\ r.taker_buy_quote_asset_volume = 0
                    /\ r.interpolated = 0 ]_vars

\* C17: while a key is subscribed and its stream task has handled a tick,
\* get_candles returns for the key exactly the candle of the last tick
\* handled, never an older one; and a get_candles request changes neither
\* the cache nor the registry, the tasks, the pending saves or the store, and
\* answers with candles of the cache.
C17_CacheHoldsLastTick ==
    /\ [](\A tf \in Timeframes :
            (tf \in active_streams /\ last_event[tf].present)
            => get_candles(cache, {tf})
               = { [ timeframe |-> tf,
                     candle |-> DecodeCandle(tf, last_event[tf].k,
                                             last_event[tf].close,
                                             last_event[tf].is_closed) ] })
    /\ [][ response' # response
           => /\ UNCHANGED << cache, active_streams, stream_tasks, mailbox,
                              save_jobs, candlesticks >>
              /\ \A e \in response'.body :
                    e.candle = cache[e.timeframe] ]_vars

\* A first closed tick of a candle was handled and persisted, a later tick
\* with another close price was handled, and a get_candles request returned
\* the later tick's candle.
C17_Witness ==
    \E tf \in Timeframes :
        /\ tf \in active_streams
        /\ last_event[tf].present
        /\ \E r \in candlesticks :
              /\ SameKey(r, SavedRow(tf, cache[tf]))
              /\ r.close # last_event[tf].close
        /\ response.request = "realtime_candles"
        /\ response.body = { [ timeframe |-> tf, candle |-> cache[tf] ] }
        /\ cache[tf].close = last_event[tf].close

\* C18: the updates one consumer of subscribe_updates has received for one
\* timeframe are in the order in which the stream task handled the ticks
\* (their positions in the channel increase strictly): none is received out
\* of order or twice.
C18_UpdatesInOrder ==
    \A i \in 1..Len(receiver.received), j \in 1..Len(receiver.received) :
        ( /\ i < j
          /\ receiver.received[i].update.timeframe
             = receiver.received[j].update.timeframe )
        => receiver.received[i].pos < receiver.received[j].pos

\* The consumer received an update of a key, then lagged behind the channel
\* and lost updates, and then received two later updates of the same key.
C18_Witness ==
    /\ Len(receiver.received) >= 3
    /\ \E i \in 1..(Len(receiver.received) - 1) :
          receiver.received[i + 1].pos > receiver.received[i].pos + 1
    /\ \E tf \in Timeframes :
          \A i \in 1..Len(receiver.received) :
              receiver.received[i].update.timeframe = tf

\* C19: one POST /api/fetch request calls fetch_one_batch at most
\* MAX_ITERATIONS = 10 times, answers as soon as a batch returns inserted = 0
\* or exhausted, and the iterations value of its answer never exceeds 10.
C19_FetchAtMostTenIterations ==
    /\ [](fetch_request.fetches <= MAX_ITERATIONS)
    /\ [][ ( /\ fetch_request.pc = "wait"
             /\ fetch_request'.pc # "wait"
             /\ unit[fetch_request.timeframe].result.status = "ok"
             /\ \/ unit[fetch_request.timeframe].result.inserted = 0
                \/ unit[fetch_request.timeframe].result.exhausted )
           => /\ fetch_request'.pc = "idle"
              /\ response'.request = "fetch"
              /\ response'.status = "success" ]_vars
    /\ []( (response.request = "fetch" /\ response.status = "success")
           => response.iterations <= MAX_ITERATIONS )

\* C20: a candle read or an on-demand fetch that finds no store file for the
\* symbol answers not-found and leaves the store file absent.
C20_MissingStoreNotCreated ==
    [][ (store_file = "absent" /\ response' # response)
        => /\ store_file' = "absent"
           /\ response'.status = "error"
           /\ response'.error = "Database not found for symbol" ]_vars

\* C21: every stored candle has its open and its close between its low and
\* its high, rows interpolated by the gap fill and rows built from klines with
\* an unparseable numeric field included.
C21_OhlcOrdered ==
    \A r \in candlesticks :
        /\ r.low <= r.open /\ r.open <= r.high
        /\ r.low <= r.close /\ r.close <= r.high

\* C22: get_last_candle_time(provider, symbol, timeframe) is the greatest
\* open_time among the stored rows of exactly that key, and None when the key
\* has no row; rows of other symbols or timeframes do not change it.
C22_LastCandleTimeOfKey ==
    \A s \in {Symbol, "ETHUSDT", "SOLUSDT"}, tf \in Timeframes :
        LET own  == { r \in candlesticks : /\ r.provider = PROVIDER
                                           /\ r.symbol = s
                                           /\ r.timeframe = tf }
            last == get_last_candle_time(candlesticks, PROVIDER, s, tf)
        IN  /\ own = {} => last = NULL
            /\ own # {} => /\ \E r \in own : r.open_time = last
                           /\ \A r \in own : r.open_time <= last
            /\ last = get_last_candle_time(own, PROVIDER, s, tf)

\* The retriever's key holds rows, another symbol holds a later candle of
\* the same timeframe, a third symbol holds nothing, and a session of the
\* retriever has read its last candle time to choose its start.
C22_Witness ==
    /\ \E r \in candlesticks : r.symbol = Symbol /\ r.timeframe = "5m"
    /\ \E r \in candlesticks :
          /\ r.symbol = "ETHUSDT" /\ r.timeframe = "5m"
          /\ r.open_time > get_last_candle_time(candlesticks, PROVIDER,
                                                Symbol, "5m")
    /\ get_last_candle_time(candlesticks, PROVIDER, "SOLUSDT", "5m") = NULL
    /\ unit["5m"].pc = "fetch"
    /\ unit["5m"].mode = "session"

\* C23: during a run of the driver the active set only shrinks, every
\* iteration spawns a unit for exactly the timeframes still active (a removed
\* timeframe is not fetched again, the others keep being fetched), and a
\* run started on {5m, 1h} ends with an empty active set.
C23_ExhaustedLeavesOthersRunning ==
    /\ [][ driver.pc \in {"loop", "join"}
           => driver'.active \subseteq driver.active ]_vars
    /\ [][ (driver.pc = "loop" /\ driver'.pc = "join")
           => \A tf \in Timeframes :
                 unit'[tf].pc = "start" <=> tf \in driver.active ]_vars
    /\ (driver.pc = "loop" /\ driver.active = Timeframes)
          ~> (driver.pc = "done" /\ driver.active = {})

\* The test's own data: candles at indices 0..4, 10..12 and 16..18.
TestIndices == (0..4) \cup (10..12) \cup (16..18)

\* C24 as stated: on the test's data fill inserts 5 + 3 = 8 rows, the store
\* then holds 19 rows, and the row at index 5 has
\* open = 100 + (130 - 108) * (1/6).
C24_RowFiveOpenFromHundred ==
    (gap_test.pc = "filled" /\ gap_test.indices = TestIndices)
    => /\ gap_test.filled = 8
       /\ Cardinality(candlesticks) = 19
       /\ \E r \in candlesticks :
             /\ r.open_time = 5 * timeframe_to_interval("5m")
             /\ 6 * r.open = TestUnit * (6 * 100 + (130 - 108))

\* C24, amended: on the test's data fill inserts 5 + 3 = 8 rows, the store
\* then holds 19 rows, and the row at index 5 has
\* open = 108 + (130 - 108) * (1/6), counted from the open of index 4.
C24_RowFiveOpenFromNeighbour ==
    (gap_test.pc = "filled" /\ gap_test.indices = TestIndices)
    => /\ gap_test.filled = 8
       /\ Cardinality(candlesticks) = 19
       /\ \E r \in candlesticks :
             /\ r.open_time = 5 * timeframe_to_interval("5m")
             /\ r.interpolated = 1
             /\ 6 * r.open = TestUnit * (6 * 108 + (130 - 108))

\* The test has filled the gaps of its own data.
C24_Witness ==
    /\ gap_test.pc = "filled"
    /\ gap_test.indices = TestIndices
    /\ gap_test.filled = 8

\* The stored timeframes of the symbol that are shorter than a target and
\* hold data.
SmallerStored(target_tf) ==
    { r.timeframe : r \in { x \in candlesticks :
          /\ x.provider = PROVIDER /\ x.symbol = Symbol
          /\ timeframe_to_interval(x.timeframe)
                < timeframe_to_interval(target_tf) } }

RECURSIVE SumVolume(_)
SumVolume(rows) ==
    IF rows = {} THEN 0
    ELSE LET r == CHOOSE x \in rows : TRUE
         IN  r.volume + SumVolume(rows \ {r})

\* The candle of one target bucket of the rows of a source timeframe.
BucketCandle(source_tf, target_tf, bucket) ==
    LET target_interval == timeframe_to_interval(target_tf)
        rows  == { r \in candlesticks :
                     /\ r.provider = PROVIDER /\ r.symbol = Symbol
                     /\ r.timeframe = source_tf
                     /\ (r.open_time \div target_interval) * target_interval
                           = bucket }
        first == CHOOSE r \in rows : \A q \in rows : r.open_time <= q.open_time
        last  == CHOOSE r \in rows : \A q \in rows : r.open_time >= q.open_time
    IN  [ time   |-> bucket \div 1000,
          open   |-> first.open,
          close  |-> last.close,
          high   |-> Max({ r.high : r \in rows }),
          low    |-> CHOOSE l \in { r.low : r \in rows } :
                         \A r \in rows : l <= r.low,
          volume |-> SumVolume(rows) ]

\* The buckets of a source timeframe in ascending order, truncated to limit.
Downsampled(source_tf, target_tf, limit) ==
    LET target_interval == timeframe_to_interval(target_tf)
        buckets == SortedSeq({ (r.open_time \div target_interval)
                                  * target_interval :
                               r \in { x \in candlesticks :
                                         /\ x.provider = PROVIDER
                                         /\ x.symbol = Symbol
                                         /\ x.timeframe = source_tf } })
    IN  [ i \in 1..(IF Len(buckets) < limit THEN Len(buckets) ELSE limit) |->
            BucketCandle(source_tf, target_tf, buckets[i]) ]

\* C25: a candle read of a timeframe without rows answers with the rows of
\* the largest stored smaller timeframe that has data, aggregated into
\* buckets starting at floor(t / target_interval) * target_interval with
\* open = first, close = last, high = max, low = min, volume = sum, in
\* ascending time and truncated to limit; with no smaller timeframe holding
\* data the answer is empty and not an error.
C25_DownsampledFromLargestSmaller ==
    [][ \A tf \in RequestTimeframes, limit \in LimitChoices :
          ( /\ GetCandles(tf, limit)
            /\ store_file' = "tables"
            /\ ~ \E r \in candlesticks :
                    /\ r.provider = PROVIDER /\ r.symbol = Symbol
                    /\ r.timeframe = tf )
          => /\ response'.status = "ok"
             /\ response'.candles =
                   IF SmallerStored(tf) = {} THEN <<>>
                   ELSE Downsampled(
                            CHOOSE s \in SmallerStored(tf) :
                                \A q \in SmallerStored(tf) :
                                    timeframe_to_interval(q)
                                      <= timeframe_to_interval(s),
                            tf, limit) ]_vars

\* C26: the progress cursor is written only after the inserts of its batch
\* are committed: whenever a retriever writes the cursor every kline of its
\* page has its row in the store, and at every moment, after a crash or an
\* error between the two steps included, the oldest_candle_time the cursor
\* names is the open_time of a stored candle of the key.
C26_CursorAfterCommittedBatch ==
    /\ [][ \A tf \in Timeframes :
             (unit[tf].pc = "progress"
              /\ timeframe_status'[tf] # timeframe_status[tf])
             => \A i \in 1..Len(unit[tf].klines) :
                   \E r \in candlesticks :
                       SameKey(r, KlineRow(tf, unit[tf].klines[i])) ]_vars
    /\ [](\A tf \in Timeframes :
             (timeframe_status[tf].exists
              /\ timeframe_status[tf].oldest_candle_time # NULL)
             => \E r \in candlesticks :
                   /\ r.provider = PROVIDER /\ r.symbol = Symbol
                   /\ r.timeframe = tf
                   /\ r.open_time = timeframe_status[tf].oldest_candle_time)

\* A retriever has just written the cursor of a page it inserted.
C26_Witness ==
    \E tf \in Timeframes :
        /\ unit[tf].pc = "fill_read"
        /\ unit[tf].inserted > 0
        /\ timeframe_status[tf].exists
        /\ timeframe_status[tf].oldest_candle_time
              = unit[tf].klines[1].open_time

\* C27: the backfill never persists a candle in progress: every row an
\* insert_batch adds has close_time < now at the time of the insert, the
\* first page requested with end_time = now included.
C27_OnlyClosedCandlesInserted ==
    [][ \A tf \in Timeframes :
          unit[tf].pc = "insert"
          => \A r \in candlesticks' \ candlesticks :
                r.close_time < Now ]_vars

C29_GapRowsOnGrid ==
    [][ \A tf \in Timeframes :
          (unit[tf].pc = "fill_write" /\ unit'[tf].pc # "fill_write")
          => \A i \in 1..(Len(unit[tf].candles) - 1) :
                LET a        == unit[tf].candles[i]
                    b        == unit[tf].candles[i + 1]
                    interval == timeframe_to_interval(tf)
                    rows     == GapRows(a, b, tf, interval)
                IN  b.open_time - a.open_time > interval
                    => /\ Len(rows)
                            = ((b.open_time - a.open_time) \div interval) - 1
                       /\ \A k \in 1..Len(rows) :
                             /\ rows[k].open_time
                                   = a.open_time + k * interval
                             /\ rows[k].close_time
                                   = rows[k].open_time + interval - 1 ]_vars

\* C30: when the result loop of the driver meets a unit that returned an
\* error or a task that failed, it keeps that timeframe in active and goes on
\* to the next iteration, which runs it again; the timeframes whose units
\* returned Ok in that iteration are removed or kept by their own results
\* alone.
C30_FailedUnitIsRetried ==
    /\ [][ (driver.pc = "join" /\ driver'.pc # "join")
           => /\ driver'.pc = "loop"
              /\ \A tf \in driver.active :
                    IF unit[tf].result.status = "ok"
                    THEN tf \in driver'.active
                         <=> ~ ( \/ unit[tf].result.exhausted
                                 \/ unit[tf].result.inserted = 0 )
                    ELSE tf \in driver'.active ]_vars
    /\ [][ (driver.pc = "loop" /\ driver.active # {})
           => /\ driver'.pc = "join"
              /\ \A tf \in driver.active : unit'[tf].pc = "start" ]_vars

\* The units of one iteration have returned, the 5m one exhausted and the 1h
\* one with an error or a failed task.
C30_Witness ==
    /\ driver.pc = "join"
    /\ driver.active = Timeframes
    /\ \A tf \in Timeframes : unit[tf].pc = "done"
    /\ unit["5m"].result.status = "ok" /\ unit["5m"].result.exhausted
    /\ unit["1h"].result.status # "ok"

\* C31: a failed exchange call of a batch ends the fetcher's call with the
\* error, store and progress cursor as they were, and the fetcher makes no
\* further exchange call in that batch.
C31_FailedFetchReturnsError ==
    [][ \A tf \in Timeframes :
          (unit[tf].pc = "fetch"
             /\ unit'[tf].api_errors = unit[tf].api_errors + 1)
          => /\ unit'[tf].pc = "done"
             /\ unit'[tf].result = ErrResult
             /\ candlesticks' = candlesticks
             /\ timeframe_status' = timeframe_status ]_vars

\* The timeframes that have a work unit of run_backfill, started and not yet
\* collected by the driver.
UnitsOfDriver == { tf \in Timeframes : unit[tf].mode = "batch" }

\* C32: an iteration of run_backfill starts a work unit for exactly the
\* timeframes in active, the units that exist while the driver waits are
\* those of active, one per timeframe, and the driver leaves its wait only
\* when every one of them has returned, so that no unit is left when the
\* next iteration starts.
C32_OneUnitPerActiveTimeframe ==
    /\ [][ (driver.pc = "loop" /\ driver'.pc = "join")
           => \A tf \in Timeframes :
                 IF tf \in driver.active
                 THEN unit'[tf].pc = "start" /\ unit'[tf].mode = "batch"
                 ELSE unit'[tf] = unit[tf] ]_vars
    /\ [](driver.pc = "join"
            => /\ UnitsOfDriver = driver.active
               /\ Cardinality(UnitsOfDriver) = Cardinality(driver.active))
    /\ [](driver.pc # "join" => UnitsOfDriver = {})
    /\ [][ (driver.pc = "join" /\ driver'.pc # "join")
           => \A tf \in driver.active : unit[tf].pc = "done" ]_vars

\* A later iteration in which the 5m unit has returned and the driver waits
\* for the 1h unit, which is still fetching.
C32_Witness ==
    /\ driver.pc = "join"
    /\ driver.active = Timeframes
    /\ candlesticks # {}
    /\ unit["5m"].pc = "done"
    /\ unit["1h"].pc = "fetch"

\* C33: the manager takes the commands from its mailbox one per step, the
\* oldest first, and a command sent is queued behind those sent before it;
\* whenever the manager runs and has applied every command sent so far, a
\* key is in the registry of stream tasks exactly when the last command sent
\* for it was Subscribe.
C33_RegistryFollowsLastCommand ==
    /\ [][ RunManager
           => \/ mailbox' = Tail(mailbox)
              \/ Head(mailbox).cmd = "Shutdown" ]_vars
    /\ [][ Len(mailbox') > Len(mailbox)
           => SubSeq(mailbox', 1, Len(mailbox)) = mailbox ]_vars
    /\ []( (manager = "running" /\ mailbox = <<>>)
           => \A tf \in Timeframes :
                 tf \in active_streams <=> last_command[tf] = "Subscribe" )

\* Commands for both keys have been applied: the last one for 5m was
\* Unsubscribe after a Subscribe that started its stream, the last one for 1h
\* was Subscribe.
C33_Witness ==
    /\ manager = "running"
    /\ mailbox = <<>>
    /\ last_command["5m"] = "Unsubscribe"
    /\ last_command["1h"] = "Subscribe"
    /\ active_streams = {"1h"}
    /\ \E s \in Sessions : sessions[s].state = "closed"

C35_PublishNeverBlocks ==
    /\ [][ \A tf \in Timeframes, k \in TickIdx, c \in TickCloses :
             KlineEvent(tf, k, c, FALSE)
             => /\ stream_tasks' = stream_tasks
                /\ cache'[tf].close = c
                /\ IF receiver_count(receiver, sessions) = 0
                   THEN broadcast' = broadcast
                   ELSE /\ broadcast'.tail = broadcast.tail + 1
                        /\ Len(broadcast'.buf) <= BroadcastCapacity
                        /\ broadcast'.buf[Len(broadcast'.buf)]
                           = [ pos |-> broadcast.tail,
                               update |-> [ timeframe |-> tf,
                                            candle |-> cache'[tf] ] ] ]_vars
    /\ [][ BroadcastListener
           => LET oldest == broadcast.tail - Len(broadcast.buf) IN
              IF receiver.next < oldest
              THEN /\ receiver'.received = receiver.received
                   /\ receiver'.next = oldest
              ELSE /\ receiver'.next = receiver.next + 1
                   /\ Len(receiver'.received) = Len(receiver.received) + 1
                   /\ receiver'.received[Len(receiver'.received)].pos
                      = receiver.next ]_vars

\* The consumer received the first update and then stopped reading; the
\* stream went on publishing until the consumer's position fell out of the
\* retained values.
C35_Witness ==
    /\ receiver.subscribed
    /\ Len(receiver.received) = 1
    /\ receiver.received[1].pos = 0
    /\ Len(broadcast.buf) = BroadcastCapacity
    /\ receiver.next < broadcast.tail - Len(broadcast.buf)
    /\ \E tf \in Timeframes : stream_tasks[tf] > 0

\* C36: a call of count_gaps_in_range leaves the store as it is, and the
\* number it returned for a window is the number fill_gaps_in_range returns
\* when it is then run on the same store and window.
C36_CountEqualsFill ==
    /\ [][ gap_test'.counted # gap_test.counted
           => candlesticks' = candlesticks ]_vars
    /\ [][ (gap_test.pc = "inserted" /\ gap_test'.pc = "filled")
           => /\ gap_test'.filled = gap_test.counted
              /\ gap_test'.filled
                 = count_gaps_in_range(candlesticks, "5m",
                                       gap_test.start_time,
                                       gap_test.end_time) ]_vars

\* The window 3..12 of the test's own data, which has one gap of five
\* candles, was counted and then filled.
C36_Witness ==
    /\ gap_test.pc = "filled"
    /\ gap_test.indices = TestIndices
    /\ gap_test.start_time = 3 * timeframe_to_interval("5m")
    /\ gap_test.end_time = 12 * timeframe_to_interval("5m")
    /\ gap_test.counted = 5
    /\ gap_test.filled = 5

\* The candles of the window the test program works on are all one interval
\* apart, or fewer than two.
WindowIsContiguous ==
    LET candles == fetch_candles_in_range(candlesticks, "5m",
                                          gap_test.start_time,
                                          gap_test.end_time)
    IN  \A i \in 1..(Len(candles) - 1) :
           candles[i + 1].open_time - candles[i].open_time
           = timeframe_to_interval("5m")

\* C37: a fill of a window whose adjacent candles are all exactly one
\* interval apart, or that holds fewer than two candles, returns 0 and writes
\* nothing; and a second fill of a window right after a first one returns 0
\* and leaves the store unchanged.
C37_NoGapNoFill ==
    /\ [][ (gap_test'.pc \in {"filled", "refilled"}
              /\ gap_test'.pc # gap_test.pc /\ WindowIsContiguous)
           => /\ gap_test'.filled = 0
              /\ candlesticks' = candlesticks ]_vars
    /\ [][ (gap_test.pc = "filled" /\ gap_test'.pc = "refilled")
           => /\ gap_test'.filled = 0
              /\ candlesticks' = candlesticks ]_vars

\* The window 0..18 of a store with a gap of eleven candles was filled with
\* rows, one of them placed a millisecond off the grid, and filled again.
C37_Witness ==
    /\ gap_test.pc = "refilled"
    /\ gap_test.indices = {0} \cup (11..18)
    /\ gap_test.start_time = 0
    /\ gap_test.end_time = 18 * timeframe_to_interval("5m")
    /\ gap_test.filled = 0
    /\ Cardinality(candlesticks) = 19
    /\ \E r \in candlesticks :
          r.open_time % timeframe_to_interval("5m") # 0

\* C38: for every tag, enumerated or not, the three interval mappings
\* return without failing and with the same interval (the realtime one in
\* seconds, the others in milliseconds), which for a tag outside the 15
\* enumerated ones is the interval of 5m.
C38_IntervalMappingsAgree ==
    \A a \in {lookup.utils, lookup.gap_filler, lookup.realtime} :
        a # NotCalled
        => /\ a.state = "ok"
           /\ \A b \in {lookup.utils, lookup.gap_filler, lookup.realtime} :
                 b.state = "ok" => b.seconds = a.seconds
           /\ lookup.timeframe \notin KnownTags => a.seconds = 300

\* C39: once the manager's mailbox is drained, every timeframe in the
\* subscription list of a connected viewer session has a running stream
\* task, also after another session on the same key has unsubscribed or
\* disconnected.
C39_SubscribedKeyHasStream ==
    (manager = "running" /\ mailbox = <<>>)
    => \A s \in Sessions :
          sessions[s].state = "open"
          => \A i \in 1..Len(sessions[s].subscriptions) :
                sessions[s].subscriptions[i] \in active_streams

\* C40: a viewer session sends a candle_update to its client only when the
\* update's timeframe is in the session's subscription list at the moment
\* the update is handled; for a key the session has unsubscribed, nothing
\* is sent, whatever the other sessions receive.
C40_ForwardsOnlySubscribed ==
    [][\A s \in Sessions :
          sessions'[s].sent # sessions[s].sent
          => /\ sessions[s].inbox # <<>>
             /\ sessions'[s].sent
                    = Append(sessions[s].sent, Head(sessions[s].inbox))
             /\ \E i \in 1..Len(sessions[s].subscriptions) :
                    sessions[s].subscriptions[i]
                        = Head(sessions[s].inbox).timeframe]_vars

\* Session a has unsubscribed and has handled every published update, the
\* last of which it did not forward, while session b forwarded it.
C40_Witness ==
    /\ sessions["a"].state = "open"
    /\ sessions["a"].subscriptions = <<>>
    /\ sessions["a"].sent # <<>>
    /\ sessions["a"].inbox = <<>>
    /\ sessions["a"].next = broadcast.tail
    /\ sessions["b"].state = "open"
    /\ sessions["b"].inbox = <<>>
    /\ sessions["b"].next = broadcast.tail
    /\ Len(sessions["b"].sent) > Len(sessions["a"].sent)

====
